---------------------------- MODULE Spec2Model ----------------------------
(***************************************************************************)
(* stable_vector<T, ChunkSize> (src/stable_vector.h) and the dense         *)
(* price_map<T> built on it (src/price_map.h).                             *)
(*                                                                         *)
(* SpecAppend and SpecVec drive one stable_vector<int, ChunkSize>,         *)
(* SpecIter one with an iterator held, SpecSeq and SpecEq two that are     *)
(* copied, moved and compared; SpecMap drives one price_map<int>, SpecPair *)
(* two of one configuration that are compared, SpecCtor and SpecDouble the *)
(* constructor, SpecSparse the sparse map.  A chunk (static_vector) is a   *)
(* record [id, elems]: id is the identity of the heap block make_unique    *)
(* returned, elems the m_size constructed slots.  size_type is SizeBits    *)
(* wide.  In SpecMap, SpecPair and SpecCtor prices are exact numbers       *)
(* counted in quarters of a tick, and the chunk capacity of data_, the     *)
(* capacity the constructor reserves and the epsilon of is_valid_price are *)
(* scaled down, keeping reserve < chunk capacity and epsilon < 1/2;        *)
(* SpecDouble computes the configuration in binary64 arithmetic.           *)
(***************************************************************************)
EXTENDS Integers, Sequences, FiniteSets, TLC

VARIABLES
    m_chunks,      \* stable_vector::m_chunks of the sequence under test
    heap,          \* number of chunks allocated so far (next chunk identity)
    appended,      \* history: per append, the value and where it was stored
    ret,           \* the last call: operation, argument, outcome
    cfg,           \* price_map: opening_price_, min_price_, max_price_, tick_size_, total_levels_
    data_,         \* price_map::data_ (the m_chunks of a stable_vector of pairs)
    occupied_,     \* price_map::occupied_
    size_count_,   \* price_map::size_count_
    ref,           \* the reference to a mapped value the caller holds, and its key
    other,         \* a second price_map of the same configuration: data_, occupied_, size_count_
    w,             \* a second stable_vector: whether it is constructed, its m_chunks, its elements
    held,          \* the iterator the caller holds: its index, what it read, size() then
    sparse         \* a sparse price map: its sequence, key -> slot index, reuse pool, size

vars == <<m_chunks, heap, appended, ret, cfg, data_, occupied_, size_count_, ref, other, w, held, sparse>>
mapVars == <<cfg, data_, occupied_, size_count_, ref, other>>
seqVars == <<w, held, sparse>>

---------------------------------------------------------------------------
(* Bounds of the model *)

MaxAppends == 4          \* appends per behaviour of SpecVec
MaxChunks == 3           \* chunks the sequence under test may allocate
MaxValue == 1            \* element values are 0..MaxValue
SizeBits == 5            \* width of size_type / difference_type in the model

(* Program constants *)

ChunkSize == 2           \* stable_vector<int, 2>
DefaultT == 0            \* T{} for T = int
DataChunkSize == 2       \* chunk capacity of price_map::data_ (1024, scaled)
DataReserve == 1         \* data_.reserve(1000), scaled with the chunk capacity
EpsilonInv == 3          \* 1 / epsilon of is_valid_price (1e-9, scaled to 1/3)

MaxHeap == MaxChunks + 1     \* chunks allocated before copies, moves and clears stop
MaxCopied == ChunkSize + 1   \* elements the second sequence may hold: a chunk and one

Values == 0..MaxValue
SizeMod == 2 ^ SizeBits
Garbage == MaxValue + 1  \* an indeterminate value that is no element value
Indeterminate == Values \cup {DefaultT, Garbage}

NoRef == [chunk |-> -1, off |-> -1]
NoHeld == [loc |-> NoRef, key |-> -1]
NoRet == [op |-> "ctor", arg |-> 0, val |-> 0, threw |-> "none", what |-> "",
          loc |-> NoRef, flag |-> FALSE]
NoSeq == [made |-> FALSE, chunks |-> <<>>, elems |-> <<>>]
NoSparse == [data |-> <<>>, slot |-> <<>>, free |-> <<>>, size |-> 0]
NoIt == [pos |-> [m_container |-> "", m_index |-> 0], i |-> 0, seen |-> 0, size |-> 0]

---------------------------------------------------------------------------
(* stable_vector, as operators over a chunk directory `chunks` with chunk  *)
(* capacity CS                                                              *)

Last(s) == s[Len(s)]

\* bool empty() const
sv_empty(chunks) == Len(chunks) = 0

\* size_type size() const
sv_size(chunks, CS) ==
    IF sv_empty(chunks) THEN 0
    ELSE (Len(chunks) - 1) * CS + Len(Last(chunks).elems)

\* size_type capacity() const
sv_capacity(chunks, CS) == Len(chunks) * CS

\* void add_chunk(): a fresh, empty chunk appended to the directory
add_chunk_front(chunks, h) == <<[id |-> h, elems |-> <<>>]>> \o chunks
add_chunk(chunks, h) == Append(chunks, [id |-> h, elems |-> <<>>])

\* the condition under which last_chunk() allocates
need_chunk_never(chunks, CS) == Len(chunks) = 0
need_chunk_early(chunks, CS) ==
    Len(chunks) = 0 \/ Len(Last(chunks).elems) >= CS - 1
need_chunk(chunks, CS) ==
    Len(chunks) = 0 \/ Len(Last(chunks).elems) = CS

\* chunk_type& last_chunk(): the directory after the call
last_chunk(chunks, CS, h) ==
    IF need_chunk(chunks, CS) THEN add_chunk(chunks, h) ELSE chunks

\* static_vector::emplace_back / push_back into the last chunk
chunk_push_front(chunks, v) ==
    [chunks EXCEPT ![Len(chunks)].elems = <<v>> \o @]
chunk_push(chunks, v) ==
    [chunks EXCEPT ![Len(chunks)].elems = Append(@, v)]

\* void push_back(const T&) / push_back(T&&) / emplace_back(Args&&...)
push_back(chunks, CS, h, v) == chunk_push(last_chunk(chunks, CS, h), v)
emplace_back(chunks, CS, h, v) == chunk_push(last_chunk(chunks, CS, h), v)

\* number of chunks a push allocates
push_allocs(chunks, CS) == IF need_chunk(chunks, CS) THEN 1 ELSE 0

\* conversion of a size_type value to difference_type
ToSigned(x) == IF x >= SizeMod \div 2 THEN x - SizeMod ELSE x

\* difference_type i = new_capacity - initial_capacity
reserve_start(n, cap) == ToSigned((n - cap) % SizeMod)

\* for (...; i > 0; i -= ChunkSize) add_chunk();
RECURSIVE reserve_loop(_, _, _, _)
reserve_loop(chunks, CS, h, i) ==
    IF i > 0 THEN reserve_loop(add_chunk(chunks, h), CS, h + 1, i - CS)
    ELSE chunks

\* void reserve(size_type new_capacity)
reserve(chunks, CS, h, n) ==
    reserve_loop(chunks, CS, h, reserve_start(n, sv_capacity(chunks, CS)))

\* the slot operator[](i) names: chunk i / ChunkSize, offset i % ChunkSize
slot_chunk(chunks, CS, i) == chunks[(i \div CS) + 1]
slot_off(CS, i) == i % CS
slot_exists(chunks, CS, i) == (i \div CS) + 1 <= Len(chunks)
slot_constructed(chunks, CS, i) ==
    /\ slot_exists(chunks, CS, i)
    /\ slot_off(CS, i) + 1 <= Len(slot_chunk(chunks, CS, i).elems)

\* reference operator[](size_type i): the storage location referred to
index_loc(chunks, CS, i) ==
    [chunk |-> slot_chunk(chunks, CS, i).id, off |-> slot_off(CS, i)]

\* the value read through operator[](i) from a constructed slot
index_val(chunks, CS, i) ==
    slot_chunk(chunks, CS, i).elems[slot_off(CS, i) + 1]

\* an assignment through operator[](i): v[i] = x, and in price_map
\* data_[index].first = key; data_[index].second = value
slot_write_back(chunks, CS, i, pair) ==
    [chunks EXCEPT ![Len(chunks)].elems[Len(chunks[Len(chunks)].elems)] = pair]
slot_write(chunks, CS, i, pair) ==
    [chunks EXCEPT ![(i \div CS) + 1].elems[slot_off(CS, i) + 1] = pair]

\* the condition under which at(i) throws std::out_of_range
at_throws_strict(chunks, CS, i) == i > sv_size(chunks, CS)
at_throws(chunks, CS, i) == i >= sv_size(chunks, CS)

---------------------------------------------------------------------------
(* The sequence under test *)

size == sv_size(m_chunks, ChunkSize)
capacity == sv_capacity(m_chunks, ChunkSize)
empty == sv_empty(m_chunks)

\* no second price_map is constructed
NoMap == [data |-> <<>>, occ |-> <<>>, cnt |-> 0]

\* no price_map is constructed while the sequence is under test
NoConfig ==
    [opening_price_ |-> 0, min_price_ |-> 0, max_price_ |-> 0,
     tick_size_ |-> 1, total_levels_ |-> 0]

InitVec ==
    /\ m_chunks = <<>>
    /\ heap = 0
    /\ appended = <<>>
    /\ ret = NoRet
    /\ cfg = NoConfig
    /\ data_ = <<>>
    /\ occupied_ = <<>>
    /\ size_count_ = 0
    /\ ref = NoHeld
    /\ other = NoMap
    /\ w = NoSeq
    /\ held = NoIt
    /\ sparse = NoSparse

\* where the element just pushed sits
BackLoc(chunks) ==
    [chunk |-> Last(chunks).id, off |-> Len(Last(chunks).elems) - 1]

Appended(chunks, v) ==
    Append(appended, [val |-> v, loc |-> BackLoc(chunks), pos |-> Len(chunks)])

PushBack(v) ==
    /\ Len(appended) < MaxAppends
    /\ Len(m_chunks) + push_allocs(m_chunks, ChunkSize) <= MaxChunks
    /\ m_chunks' = push_back(m_chunks, ChunkSize, heap, v)
    /\ heap' = heap + push_allocs(m_chunks, ChunkSize)
    /\ appended' = Appended(m_chunks', v)
    /\ ret' = [NoRet EXCEPT !.op = "push_back", !.arg = v]
    /\ UNCHANGED <<mapVars, seqVars>>

EmplaceBack(v) ==
    /\ Len(appended) < MaxAppends
    /\ Len(m_chunks) + push_allocs(m_chunks, ChunkSize) <= MaxChunks
    /\ m_chunks' = emplace_back(m_chunks, ChunkSize, heap, v)
    /\ heap' = heap + push_allocs(m_chunks, ChunkSize)
    /\ appended' = Appended(m_chunks', v)
    /\ ret' = [NoRet EXCEPT !.op = "emplace_back", !.arg = v]
    /\ UNCHANGED <<mapVars, seqVars>>

Reserve(n) ==
    /\ Len(reserve(m_chunks, ChunkSize, heap, n)) <= MaxChunks
    /\ m_chunks' = reserve(m_chunks, ChunkSize, heap, n)
    /\ heap' = heap + (Len(m_chunks') - Len(m_chunks))
    /\ ret' = [NoRet EXCEPT !.op = "reserve", !.arg = n,
                            !.val = Len(m_chunks') - Len(m_chunks)]
    /\ UNCHANGED appended
    /\ UNCHANGED <<mapVars, seqVars>>

\* reference at(size_type i); the value read is indeterminate when
\* operator[](i) names a slot that holds no constructed element
At(i) ==
    /\ \/ /\ at_throws(m_chunks, ChunkSize, i)
          /\ ret' = [NoRet EXCEPT !.op = "at", !.arg = i,
                                  !.threw = "out_of_range",
                                  !.what = "stable_vector::at"]
       \/ /\ ~at_throws(m_chunks, ChunkSize, i)
          /\ slot_exists(m_chunks, ChunkSize, i)
          /\ \E g \in Indeterminate :
               ret' = [NoRet EXCEPT
                         !.op = "at", !.arg = i,
                         !.loc = index_loc(m_chunks, ChunkSize, i),
                         !.val = IF slot_constructed(m_chunks, ChunkSize, i)
                                 THEN index_val(m_chunks, ChunkSize, i)
                                 ELSE g]
    /\ UNCHANGED <<m_chunks, heap, appended>>
    /\ UNCHANGED <<mapVars, seqVars>>

ReserveArgs == 0..(MaxChunks * ChunkSize) \cup {SizeMod \div 2 + 1, SizeMod - 1}
AtArgs == 0..(MaxChunks * ChunkSize)

NextAppend ==
    \/ \E v \in Values : PushBack(v)
    \/ \E v \in Values : EmplaceBack(v)
    \/ \E i \in AtArgs : At(i)

NextVec ==
    \/ NextAppend
    \/ \E n \in ReserveArgs : Reserve(n)

\* a sequence that is only appended to and read
SpecAppend == InitVec /\ [][NextAppend]_vars

\* a sequence that is appended to, reserved and read
SpecVec == InitVec /\ [][NextVec]_vars

---------------------------------------------------------------------------
(* Iterators, copies and moves of a stable_vector *)

\* iterator_base(Container* c, size_type i)
iterator_base(c, i) == [m_container |-> c, m_index |-> i % SizeMod]

\* iterator begin() / iterator end()
sv_begin(c) == iterator_base(c, 0)
sv_end(c, chunks, CS) == iterator_base(c, sv_size(chunks, CS))

\* iterator operator+(size_type n) const
iterator_plus(i, n) == iterator_base(i.m_container, i.m_index + n)

\* bool iterator_base::operator==(const iterator_base& it) const
iterator_eq(a, b) == a.m_container = b.m_container /\ a.m_index = b.m_index

\* reference iterator::operator*(): (*m_container)[m_index]
iterator_deref_back(chunks, CS, i) == index_val(chunks, CS, sv_size(chunks, CS) - 1)
iterator_deref(chunks, CS, i) == index_val(chunks, CS, i.m_index)

\* the heap blocks a directory owns
blocks(chunks) == {chunks[n].id : n \in DOMAIN chunks}

\* stable_vector(const stable_vector& other): make_unique<chunk_type>(*chunk)
\* per chunk of other
sv_copy_shallow(chunks, h) == chunks
sv_copy(chunks, h) ==
    [n \in 1..Len(chunks) |-> [id |-> h + n - 1, elems |-> chunks[n].elems]]

\* stable_vector(stable_vector&& other): m_chunks(std::move(other.m_chunks))
sv_move_keep(chunks) == [to |-> chunks, from |-> chunks]
sv_move(chunks) == [to |-> chunks, from |-> <<>>]

\* void swap(__self& v)
sv_swap(l, r) == [l |-> r, r |-> l]

\* stable_vector& operator=(stable_vector v): swap(v), then v is destroyed
sv_assign(chunks, v) ==
    [self |-> sv_swap(chunks, v).l, destroyed |-> sv_swap(chunks, v).r]

\* ~static_vector() per chunk of a destroyed directory: the elements destroyed
RECURSIVE destructions_all(_)
destructions_all(chunks) ==
    IF chunks = <<>> THEN 0 ELSE ChunkSize + destructions_all(Tail(chunks))
RECURSIVE destructions(_)
destructions(chunks) ==
    IF chunks = <<>> THEN 0
    ELSE Len(chunks[1].elems) + destructions(Tail(chunks))

\* the elements constructed by a call: those of the chunks of `chunks` that
\* lie in heap blocks not among `old`, the blocks allocated before the call
RECURSIVE constructions(_, _)
constructions(old, chunks) ==
    IF chunks = <<>> THEN 0
    ELSE (IF chunks[1].id \in old THEN 0 ELSE Len(chunks[1].elems))
             + constructions(old, Tail(chunks))

\* a directory after the heap block `c` was written through another owner
aliased(chunks, c) ==
    [n \in 1..Len(chunks) |-> IF chunks[n].id = c.id THEN c ELSE chunks[n]]

\* a directory after the heap blocks of `gone` were destroyed by their owner
released(chunks, gone) ==
    [n \in 1..Len(chunks) |->
        IF chunks[n].id \in blocks(gone)
        THEN [chunks[n] EXCEPT !.elems = [j \in DOMAIN @ |-> Garbage]]
        ELSE chunks[n]]

\* bool operator==(const __self& c) const: size() == c.size() and
\* std::equal over [cbegin(), cend()); reading a slot that holds no
\* constructed element gives an indeterminate result
sv_equal(a, b, CS) ==
    IF sv_size(a, CS) # sv_size(b, CS) THEN {FALSE}
    ELSE LET idx == 0..(sv_size(a, CS) - 1)
             both(i) == slot_constructed(a, CS, i) /\ slot_constructed(b, CS, i)
         IN  IF \E i \in idx : both(i) /\ index_val(a, CS, i) # index_val(b, CS, i)
             THEN {FALSE}
             ELSE IF \E i \in idx : ~both(i) THEN {TRUE, FALSE}
             ELSE {TRUE}

---------------------------------------------------------------------------
(* The sequence under test and a second sequence w *)

\* the elements appended to the sequence under test, in order
AppendedValues == [n \in 1..Len(appended) |-> appended[n].val]

\* auto it = v.begin() + i, read once
TakeIterator(i) ==
    /\ i < size
    /\ slot_constructed(m_chunks, ChunkSize, i)
    /\ held' = [pos |-> iterator_plus(sv_begin("v"), i), i |-> i,
                seen |-> iterator_deref(m_chunks, ChunkSize,
                                        iterator_plus(sv_begin("v"), i)),
                size |-> size]
    /\ ret' = [NoRet EXCEPT !.op = "begin", !.arg = i]
    /\ UNCHANGED <<m_chunks, heap, appended, w, mapVars, sparse>>

\* *it
DerefIterator ==
    /\ held.pos.m_container = "v"
    /\ slot_constructed(m_chunks, ChunkSize, held.pos.m_index)
    /\ ret' = [NoRet EXCEPT !.op = "deref", !.arg = held.pos.m_index,
                            !.val = iterator_deref(m_chunks, ChunkSize, held.pos),
                            !.loc = index_loc(m_chunks, ChunkSize, held.pos.m_index)]
    /\ UNCHANGED <<m_chunks, heap, appended, w, held, mapVars, sparse>>

\* stable_vector<int, ChunkSize> w;
DefaultCtor ==
    /\ ~w.made
    /\ w' = [made |-> TRUE, chunks |-> <<>>, elems |-> <<>>]
    /\ ret' = [NoRet EXCEPT !.op = "default_ctor"]
    /\ UNCHANGED <<m_chunks, heap, appended, held, mapVars, sparse>>

\* stable_vector<int, ChunkSize> w(v);
CopyCtor ==
    /\ ~w.made
    /\ Len(appended) <= MaxCopied
    /\ heap + Len(m_chunks) <= MaxHeap
    /\ w' = [made |-> TRUE, chunks |-> sv_copy(m_chunks, heap),
             elems |-> AppendedValues]
    /\ heap' = heap + Len(m_chunks)
    /\ ret' = [NoRet EXCEPT !.op = "copy_ctor"]
    /\ UNCHANGED <<m_chunks, appended, held, mapVars, sparse>>

\* stable_vector<int, ChunkSize> w(std::move(v));
MoveCtor ==
    /\ ~w.made
    /\ Len(appended) <= MaxCopied
    /\ heap < MaxHeap
    /\ w' = [made |-> TRUE, chunks |-> sv_move(m_chunks).to,
             elems |-> AppendedValues]
    /\ m_chunks' = sv_move(m_chunks).from
    /\ appended' = <<>>
    /\ ret' = [NoRet EXCEPT !.op = "move_ctor"]
    /\ UNCHANGED <<heap, held, mapVars, sparse>>

\* w = v;
CopyAssign ==
    /\ w.made
    /\ Len(appended) <= MaxCopied
    /\ heap + Len(m_chunks) <= MaxHeap
    /\ LET a == sv_assign(w.chunks, sv_copy(m_chunks, heap))
       IN  /\ w' = [w EXCEPT !.chunks = a.self, !.elems = AppendedValues]
           /\ m_chunks' = released(m_chunks, a.destroyed)
    /\ heap' = heap + Len(m_chunks)
    /\ ret' = [NoRet EXCEPT !.op = "copy_assign"]
    /\ UNCHANGED <<appended, held, mapVars, sparse>>

\* w = std::move(v); the caller counts the elements destroyed (val) and
\* constructed, copied or moved (arg), as CallCounter does
MoveAssign ==
    /\ w.made
    /\ Len(appended) <= MaxCopied
    /\ heap < MaxHeap
    /\ LET a == sv_assign(w.chunks, sv_move(m_chunks).to)
       IN  /\ w' = [w EXCEPT !.chunks = a.self, !.elems = AppendedValues]
           /\ m_chunks' = released(sv_move(m_chunks).from, a.destroyed)
    /\ appended' = <<>>
    /\ ret' = [NoRet EXCEPT
                 !.op = "move_assign",
                 !.val = destructions(sv_assign(w.chunks, sv_move(m_chunks).to).destroyed),
                 !.arg = constructions(blocks(m_chunks) \cup blocks(w.chunks),
                                       sv_assign(w.chunks, sv_move(m_chunks).to).self)]
    /\ UNCHANGED <<heap, held, mapVars, sparse>>

\* v = {};
AssignEmpty ==
    /\ w.made
    /\ heap < MaxHeap
    /\ LET a == sv_assign(m_chunks, <<>>)
       IN  /\ m_chunks' = a.self
           /\ w' = [w EXCEPT !.chunks = released(@, a.destroyed)]
    /\ appended' = <<>>
    /\ ret' = [NoRet EXCEPT !.op = "assign_empty"]
    /\ UNCHANGED <<heap, held, mapVars, sparse>>

\* w.push_back(v)
PushW(v) ==
    /\ w.made
    /\ Len(w.elems) < MaxCopied
    /\ heap + push_allocs(w.chunks, ChunkSize) <= MaxHeap
    /\ LET pushed == push_back(w.chunks, ChunkSize, heap, v)
       IN  /\ w' = [w EXCEPT !.chunks = pushed, !.elems = Append(@, v)]
           /\ m_chunks' = aliased(m_chunks, Last(pushed))
    /\ heap' = heap + push_allocs(w.chunks, ChunkSize)
    /\ ret' = [NoRet EXCEPT !.op = "push_w"]
    /\ UNCHANGED <<appended, held, mapVars, sparse>>

\* w[i] = x
WriteW(i, x) ==
    /\ w.made
    /\ i < sv_size(w.chunks, ChunkSize)
    /\ slot_constructed(w.chunks, ChunkSize, i)
    /\ LET written == slot_write(w.chunks, ChunkSize, i, x)
       IN  /\ w' = [w EXCEPT !.chunks = written, !.elems[i + 1] = x]
           /\ m_chunks' = aliased(m_chunks, slot_chunk(written, ChunkSize, i))
    /\ ret' = [NoRet EXCEPT !.op = "write_w"]
    /\ UNCHANGED <<heap, appended, held, mapVars, sparse>>

\* v == w
SeqEqual ==
    /\ w.made
    /\ \E b \in sv_equal(m_chunks, w.chunks, ChunkSize) :
          ret' = [NoRet EXCEPT !.op = "equal", !.flag = b]
    /\ UNCHANGED <<m_chunks, heap, appended, w, held, mapVars, sparse>>

NextIter ==
    \/ \E v \in Values : PushBack(v)
    \/ \E v \in Values : EmplaceBack(v)
    \/ \E i \in AtArgs : TakeIterator(i)
    \/ DerefIterator

NextSeq ==
    \/ \E v \in Values : PushBack(v)
    \/ DefaultCtor
    \/ CopyCtor
    \/ MoveCtor
    \/ CopyAssign
    \/ MoveAssign
    \/ AssignEmpty
    \/ \E v \in Values : PushW(v)
    \/ \E i \in AtArgs, x \in Values : WriteW(i, x)
    \/ SeqEqual

NextEq ==
    \/ \E v \in Values : PushBack(v)
    \/ \E n \in ReserveArgs : Reserve(n)
    \/ DefaultCtor
    \/ \E v \in Values : PushW(v)
    \/ SeqEqual

\* a sequence that is appended to while an iterator into it is held
SpecIter == InitVec /\ [][NextIter]_vars

\* two sequences that are appended to, copied, moved and compared
SpecSeq == InitVec /\ [][NextSeq]_vars

\* two sequences built independently, one of them also reserved, and compared
SpecEq == InitVec /\ [][NextEq]_vars

---------------------------------------------------------------------------
(* price_map<int>: the dense map over data_ = stable_vector<pair<double,T>> *)

Abs(x) == IF x < 0 THEN 0 - x ELSE x

\* std::round(a / b) for a >= 0, b > 0: halves round away from zero
round_div(a, b) == (2 * a + b) \div (2 * b)

\* std::ceil(a / b) for a >= 0, b > 0
ceil_div(a, b) == (a + b - 1) \div b

\* bool is_valid_price(double price) const
is_valid_price_in_range(c, price) ==
    ~(price < c.min_price_ \/ price > c.max_price_)
is_valid_price(c, price) ==
    IF price < c.min_price_ \/ price > c.max_price_ THEN FALSE
    ELSE LET offset == price - c.min_price_
             r == round_div(offset, c.tick_size_)
         IN  Abs(offset - r * c.tick_size_) * EpsilonInv < c.tick_size_

\* price_to_index throws when the price is outside [min_price_, max_price_]
price_to_index_throws(c, price) ==
    price < c.min_price_ \/ price > c.max_price_

\* size_type price_to_index(double price) const
price_to_index_mirror(c, price) ==
    LET index == round_div(price - c.min_price_, c.tick_size_)
    IN  IF index >= c.total_levels_ THEN 0 ELSE c.total_levels_ - 1 - index
price_to_index(c, price) ==
    LET index == round_div(price - c.min_price_, c.tick_size_)
    IN  IF index >= c.total_levels_ THEN c.total_levels_ - 1 ELSE index

\* double index_to_price(size_type index) const
index_to_price(c, index) == c.min_price_ + index * c.tick_size_

\* while (data_.size() <= index) data_.emplace_back(make_pair(dummy_price, T{}))
backfill_never(c, chunks, h, index) == [chunks |-> chunks, heap |-> h]
backfill_one(c, chunks, h, index) ==
    IF sv_size(chunks, DataChunkSize) <= index
    THEN [chunks |-> emplace_back(chunks, DataChunkSize, h,
                        [first |-> index_to_price(c, sv_size(chunks, DataChunkSize)),
                         second |-> DefaultT]),
          heap |-> h + push_allocs(chunks, DataChunkSize)]
    ELSE [chunks |-> chunks, heap |-> h]
RECURSIVE backfill(_, _, _, _)
backfill(c, chunks, h, index) ==
    IF sv_size(chunks, DataChunkSize) <= index
    THEN backfill(c,
                  emplace_back(chunks, DataChunkSize, h,
                      [first |-> index_to_price(c, sv_size(chunks, DataChunkSize)),
                       second |-> DefaultT]),
                  h + push_allocs(chunks, DataChunkSize),
                  index)
    ELSE [chunks |-> chunks, heap |-> h]

\* an assignment through a T& obtained earlier: the slot of the chunk it
\* points into receives the value
ref_write(chunks, loc, value) ==
    [n \in 1..Len(chunks) |->
        IF chunks[n].id = loc.chunk
        THEN [chunks[n] EXCEPT !.elems[loc.off + 1].second = value]
        ELSE chunks[n]]

\* the outcome of a map call: the members afterwards and what is returned
Outcome(chunks, occ, cnt, h, threw, flag, index, val) ==
    [data |-> chunks, occ |-> occ, cnt |-> cnt, heap |-> h,
     threw |-> threw, what |-> "", flag |-> flag, index |-> index, val |-> val]

\* throw std::out_of_range(what)
Thrown(chunks, occ, cnt, h, what) ==
    [Outcome(chunks, occ, cnt, h, "out_of_range", FALSE, 0 - 1, 0)
        EXCEPT !.what = what]

InvalidPrice == "Invalid price or price outside range"
KeyNotFound == "price_map::at - key not found"

\* std::pair<iterator, bool> insert(const double& key, const T& value)
pm_insert_overwrite(c, chunks, occ, cnt, h, key, value) ==
    IF ~is_valid_price(c, key) \/ price_to_index_throws(c, key)
    THEN Thrown(chunks, occ, cnt, h, InvalidPrice)
    ELSE LET index == price_to_index(c, key)
             grown == backfill(c, chunks, h, index)
         IN  Outcome(slot_write(grown.chunks, DataChunkSize, index,
                                [first |-> key, second |-> value]),
                     [occ EXCEPT ![index + 1] = TRUE],
                     IF occ[index + 1] THEN cnt ELSE cnt + 1, grown.heap,
                     "none", ~occ[index + 1], index, value)
pm_insert(c, chunks, occ, cnt, h, key, value) ==
    IF ~is_valid_price(c, key) \/ price_to_index_throws(c, key)
    THEN Thrown(chunks, occ, cnt, h, InvalidPrice)
    ELSE LET index == price_to_index(c, key)
             grown == backfill(c, chunks, h, index)
         IN  IF occ[index + 1]
             THEN Outcome(grown.chunks, occ, cnt, grown.heap, "none", FALSE, index,
                          index_val(grown.chunks, DataChunkSize, index).second)
             ELSE Outcome(slot_write(grown.chunks, DataChunkSize, index,
                                     [first |-> key, second |-> value]),
                          [occ EXCEPT ![index + 1] = TRUE], cnt + 1, grown.heap,
                          "none", TRUE, index, value)

\* std::pair<iterator, bool> emplace(const double& key, Args&&... args),
\* value being T(args...)
pm_emplace_default(c, chunks, occ, cnt, h, key, value) ==
    IF ~is_valid_price(c, key) \/ price_to_index_throws(c, key)
    THEN Thrown(chunks, occ, cnt, h, InvalidPrice)
    ELSE LET index == price_to_index(c, key)
             grown == backfill(c, chunks, h, index)
         IN  IF occ[index + 1]
             THEN Outcome(grown.chunks, occ, cnt, grown.heap, "none", FALSE, index,
                          index_val(grown.chunks, DataChunkSize, index).second)
             ELSE Outcome(slot_write(grown.chunks, DataChunkSize, index,
                                     [first |-> key, second |-> DefaultT]),
                          [occ EXCEPT ![index + 1] = TRUE], cnt + 1, grown.heap,
                          "none", TRUE, index, DefaultT)
pm_emplace(c, chunks, occ, cnt, h, key, value) ==
    IF ~is_valid_price(c, key) \/ price_to_index_throws(c, key)
    THEN Thrown(chunks, occ, cnt, h, InvalidPrice)
    ELSE LET index == price_to_index(c, key)
             grown == backfill(c, chunks, h, index)
         IN  IF occ[index + 1]
             THEN Outcome(grown.chunks, occ, cnt, grown.heap, "none", FALSE, index,
                          index_val(grown.chunks, DataChunkSize, index).second)
             ELSE Outcome(slot_write(grown.chunks, DataChunkSize, index,
                                     [first |-> key, second |-> value]),
                          [occ EXCEPT ![index + 1] = TRUE], cnt + 1, grown.heap,
                          "none", TRUE, index, value)

\* T& operator[](const double& key)
pm_subscript_keep(c, chunks, occ, cnt, h, key) ==
    IF ~is_valid_price(c, key) \/ price_to_index_throws(c, key)
    THEN Thrown(chunks, occ, cnt, h, InvalidPrice)
    ELSE LET index == price_to_index(c, key)
             grown == backfill(c, chunks, h, index)
         IN  IF ~occ[index + 1]
             THEN Outcome(slot_write(grown.chunks, DataChunkSize, index,
                            [first |-> key,
                             second |-> index_val(grown.chunks, DataChunkSize, index).second]),
                          [occ EXCEPT ![index + 1] = TRUE], cnt + 1, grown.heap,
                          "none", TRUE, index,
                          index_val(grown.chunks, DataChunkSize, index).second)
             ELSE Outcome(grown.chunks, occ, cnt, grown.heap, "none", FALSE, index,
                          index_val(grown.chunks, DataChunkSize, index).second)
pm_subscript(c, chunks, occ, cnt, h, key) ==
    IF ~is_valid_price(c, key) \/ price_to_index_throws(c, key)
    THEN Thrown(chunks, occ, cnt, h, InvalidPrice)
    ELSE LET index == price_to_index(c, key)
             grown == backfill(c, chunks, h, index)
         IN  IF ~occ[index + 1]
             THEN Outcome(slot_write(grown.chunks, DataChunkSize, index,
                                     [first |-> key, second |-> DefaultT]),
                          [occ EXCEPT ![index + 1] = TRUE], cnt + 1, grown.heap,
                          "none", TRUE, index, DefaultT)
             ELSE Outcome(grown.chunks, occ, cnt, grown.heap, "none", FALSE, index,
                          index_val(grown.chunks, DataChunkSize, index).second)

\* T& at(const double& key): both failures are std::out_of_range, told
\* apart by their message only
pm_at_grow(c, chunks, occ, cnt, h, key) ==
    IF ~is_valid_price(c, key) \/ price_to_index_throws(c, key)
    THEN Thrown(chunks, occ, cnt, h, InvalidPrice)
    ELSE LET index == price_to_index(c, key)
             grown == backfill(c, chunks, h, index)
         IN  IF ~occ[index + 1]
             THEN Thrown(grown.chunks, occ, cnt, grown.heap, KeyNotFound)
             ELSE Outcome(grown.chunks, occ, cnt, grown.heap, "none", FALSE, index,
                          index_val(grown.chunks, DataChunkSize, index).second)
pm_at_one_message(c, chunks, occ, cnt, h, key) ==
    IF ~is_valid_price(c, key) \/ price_to_index_throws(c, key)
    THEN Thrown(chunks, occ, cnt, h, InvalidPrice)
    ELSE LET index == price_to_index(c, key)
         IN  IF ~occ[index + 1]
             THEN Thrown(chunks, occ, cnt, h, InvalidPrice)
             ELSE Outcome(chunks, occ, cnt, h, "none", FALSE, index,
                          index_val(chunks, DataChunkSize, index).second)
pm_at(c, chunks, occ, cnt, h, key) ==
    IF ~is_valid_price(c, key) \/ price_to_index_throws(c, key)
    THEN Thrown(chunks, occ, cnt, h, InvalidPrice)
    ELSE LET index == price_to_index(c, key)
         IN  IF ~occ[index + 1]
             THEN Thrown(chunks, occ, cnt, h, KeyNotFound)
             ELSE Outcome(chunks, occ, cnt, h, "none", FALSE, index,
                          index_val(chunks, DataChunkSize, index).second)

\* size_type erase(const double& key)
pm_erase_any(c, chunks, occ, cnt, h, key) ==
    IF ~is_valid_price(c, key) THEN Outcome(chunks, occ, cnt, h, "none", FALSE, 0 - 1, 0)
    ELSE LET index == price_to_index(c, key)
         IN  Outcome(chunks, [occ EXCEPT ![index + 1] = FALSE],
                     IF occ[index + 1] THEN cnt - 1 ELSE cnt, h,
                     "none", TRUE, index, 1)
pm_erase(c, chunks, occ, cnt, h, key) ==
    IF ~is_valid_price(c, key) THEN Outcome(chunks, occ, cnt, h, "none", FALSE, 0 - 1, 0)
    ELSE LET index == price_to_index(c, key)
         IN  IF ~occ[index + 1]
             THEN Outcome(chunks, occ, cnt, h, "none", FALSE, index, 0)
             ELSE Outcome(chunks, [occ EXCEPT ![index + 1] = FALSE], cnt - 1, h,
                          "none", TRUE, index, 1)

\* bool contains(const double& key) const
pm_contains(c, occ, key) ==
    IF ~is_valid_price(c, key) THEN FALSE
    ELSE occ[price_to_index(c, key) + 1]

\* iterator::skip_unoccupied(): the index the iterator settles on
RECURSIVE skip_unoccupied(_, _, _)
skip_unoccupied(chunks, occ, index) ==
    IF index < sv_size(chunks, DataChunkSize) /\ ~occ[index + 1]
    THEN skip_unoccupied(chunks, occ, index + 1)
    ELSE index

\* iterator end(): iterator(this, data_.size())
pm_end(chunks, occ) ==
    skip_unoccupied(chunks, occ, sv_size(chunks, DataChunkSize))

\* iterator find(const double& key), as the index the iterator holds
pm_find_nearest(c, chunks, occ, key) ==
    IF price_to_index_throws(c, key) THEN pm_end(chunks, occ)
    ELSE LET index == price_to_index(c, key)
         IN  IF ~occ[index + 1] THEN pm_end(chunks, occ)
             ELSE skip_unoccupied(chunks, occ, index)
pm_find(c, chunks, occ, key) ==
    IF ~is_valid_price(c, key) THEN pm_end(chunks, occ)
    ELSE LET index == price_to_index(c, key)
         IN  IF ~occ[index + 1] THEN pm_end(chunks, occ)
             ELSE skip_unoccupied(chunks, occ, index)

\* size_type count(const double& key) const
pm_count_valid(c, occ, key) ==
    IF ~is_valid_price(c, key) THEN 0 ELSE 1
pm_count(c, occ, key) ==
    IF ~is_valid_price(c, key) THEN 0
    ELSE IF occ[price_to_index(c, key) + 1] THEN 1 ELSE 0

\* iterator begin(): iterator(this, 0)
pm_begin_zero(chunks, occ) == 0
pm_begin(chunks, occ) == skip_unoccupied(chunks, occ, 0)

\* iterator& operator++(): ++index_; skip_unoccupied()
pm_next_noskip(chunks, occ, index) == index + 1
pm_next(chunks, occ, index) == skip_unoccupied(chunks, occ, index + 1)

\* for (auto it = begin(); it != end(); ++it): the indices it stops at
RECURSIVE pm_visit(_, _, _)
pm_visit(chunks, occ, it) ==
    IF it = pm_end(chunks, occ) THEN <<>>
    ELSE <<it>> \o pm_visit(chunks, occ, pm_next(chunks, occ, it))

\* the iterators a caller can obtain from begin(), find(), ++ and end()
pm_iterators(chunks, occ) ==
    {skip_unoccupied(chunks, occ, i) : i \in 0..sv_size(chunks, DataChunkSize)}

\* iterator erase(const_iterator pos): index is the iterator returned
pm_erase_iter_noskip(chunks, occ, cnt, h, pos) ==
    IF pos = pm_end(chunks, occ)
    THEN Outcome(chunks, occ, cnt, h, "none", FALSE, pm_end(chunks, occ), 0)
    ELSE LET index == pos
             cleared == IF occ[index + 1] THEN [occ EXCEPT ![index + 1] = FALSE]
                        ELSE occ
         IN  Outcome(chunks, cleared,
                     IF occ[index + 1] THEN cnt - 1 ELSE cnt, h,
                     "none", occ[index + 1], index + 1, 0)
pm_erase_iter(chunks, occ, cnt, h, pos) ==
    IF pos = pm_end(chunks, occ)
    THEN Outcome(chunks, occ, cnt, h, "none", FALSE, pm_end(chunks, occ), 0)
    ELSE LET index == pos
             cleared == IF occ[index + 1] THEN [occ EXCEPT ![index + 1] = FALSE]
                        ELSE occ
         IN  Outcome(chunks, cleared,
                     IF occ[index + 1] THEN cnt - 1 ELSE cnt, h,
                     "none", occ[index + 1],
                     skip_unoccupied(chunks, cleared, index + 1), 0)

\* void clear() noexcept
pm_clear_release(chunks, occ, cnt, h) ==
    Outcome(<<>>, [i \in DOMAIN occ |-> FALSE], 0, h, "none", FALSE, 0 - 1, 0)
pm_clear_flags_only(chunks, occ, cnt, h) ==
    Outcome(chunks, [i \in DOMAIN occ |-> FALSE], cnt, h, "none", FALSE, 0 - 1, 0)
pm_clear(chunks, occ, cnt, h) ==
    Outcome(chunks, [i \in DOMAIN occ |-> FALSE], 0, h, "none", FALSE, 0 - 1, 0)

\* size_type size() const noexcept / bool empty() const noexcept
pm_size(cnt) == cnt
pm_empty(cnt) == cnt = 0

\* bool operator==(const price_map& other) const, a and b being the
\* members [data, occ, cnt] of *this and of other
pm_equal_sizes(c, a, b) == pm_size(a.cnt) = pm_size(b.cnt)
pm_equal(c, a, b) ==
    IF pm_size(a.cnt) # pm_size(b.cnt) THEN FALSE
    ELSE LET visited == pm_visit(a.data, a.occ, pm_begin(a.data, a.occ))
         IN  \A j \in 1..Len(visited) :
                 LET pair == index_val(a.data, DataChunkSize, visited[j])
                     it == pm_find(c, b.data, b.occ, pair.first)
                 IN  ~(\/ it = pm_end(b.data, b.occ)
                       \/ index_val(b.data, DataChunkSize, it).second # pair.second)

\* bool operator!=(const price_map& other) const
pm_not_equal(c, a, b) == ~pm_equal(c, a, b)

\* price_map(double opening_price, double up_limit_pct, double down_limit_pct,
\*           double tick_size): the configuration derived
pm_config(a) ==
    LET lo == (a.opening * (100 - a.down)) \div 100
        hi == (a.opening * (100 + a.up)) \div 100
    IN  [opening_price_ |-> a.opening, min_price_ |-> lo, max_price_ |-> hi,
         tick_size_ |-> a.tick,
         total_levels_ |-> ceil_div(hi - lo, a.tick) + 1]

\* static_cast<size_type>(x) of a double x: undefined for x < 0, where a
\* build either wraps the value or saturates it to 0
size_cast(x) == IF x >= 0 THEN {x % SizeMod} ELSE {x % SizeMod, 0}

\* the values total_levels_ can take:
\* static_cast<size_type>(std::ceil(price_range / tick_size_)) + 1
ctor_levels(a) ==
    LET c == pm_config(a)
    IN  {(n + 1) % SizeMod :
            n \in size_cast(ceil_div(c.max_price_ - c.min_price_, a.tick))}

\* std::vector<char>::max_size(): above it resize throws std::length_error
vector_max_size == SizeMod \div 2 - 1

\* a constructor that throws: no map exists afterwards
CtorFailed(threw, what, h) ==
    [threw |-> threw, what |-> what, cfg |-> NoConfig, data |-> <<>>,
     occ |-> <<>>, cnt |-> 0, heap |-> h]

TickNotPositive == "Tick size must be positive"
LimitNegative == "Limit percentages must be non-negative"

\* the rest of the constructor once the arguments are accepted,
\* total_levels_ coming out as levels
pm_build(a, h, levels) ==
    LET reserved == reserve(<<>>, DataChunkSize, h, DataReserve)
    IN  IF levels > vector_max_size
        THEN CtorFailed("length_error", "vector::_M_fill_insert", h + Len(reserved))
        ELSE [threw |-> "none", what |-> "",
              cfg |-> [pm_config(a) EXCEPT !.total_levels_ = levels],
              data |-> reserved,
              occ |-> [i \in 1..levels |-> FALSE],
              cnt |-> 0, heap |-> h + Len(reserved)]

\* price_map(double opening_price, double up_limit_pct, double down_limit_pct,
\*           double tick_size): the outcomes it can have
pm_construct(a, h) ==
    IF a.tick <= 0 THEN {CtorFailed("invalid_argument", TickNotPositive, h)}
    ELSE IF a.up < 0 \/ a.down < 0
    THEN {CtorFailed("invalid_argument", LimitNegative, h)}
    ELSE {pm_build(a, h, levels) : levels \in ctor_levels(a)}

---------------------------------------------------------------------------
(* A map being constructed *)

\* the constructor arguments tried: negative, zero and positive opening
\* price, limits and tick size, in the units of MapArgs
CtorArgs ==
    [opening : {0 - 20, 0, 20}, up : {0 - 20, 0, 20}, down : {0 - 20, 0, 20},
     tick : {0 - 4, 0, 4, 8}]

\* price_map<int> m(a.opening, a.up, a.down, a.tick), no map existing yet
Construct(a) ==
    /\ ret.op = "ctor" /\ cfg = NoConfig
    /\ \E o \in pm_construct(a, heap) :
          /\ cfg' = o.cfg
          /\ data_' = o.data
          /\ occupied_' = o.occ
          /\ size_count_' = o.cnt
          /\ heap' = o.heap
          /\ ret' = [NoRet EXCEPT !.op = "construct", !.arg = a,
                                   !.threw = o.threw, !.what = o.what]
    /\ UNCHANGED <<m_chunks, appended, ref, other, seqVars>>

NextCtor == \E a \in CtorArgs : Construct(a)

SpecCtor == InitVec /\ [][NextCtor]_vars

---------------------------------------------------------------------------
(* double: IEEE-754 binary64 arithmetic, round to nearest, ties to even.   *)
(* A natural number is a sequence of limbs, least significant first,       *)
(* without leading zero limbs; a double is [neg, m, e], of value           *)
(* (-1)^neg * m * 2^e with m odd, or m = <<>> for zero.  Subnormals,       *)
(* infinities and NaN do not arise from the prices modelled.               *)

Limb == 2 ^ 15
MantissaBits == 53

Max(a, b) == IF a >= b THEN a ELSE b
Min(a, b) == IF a <= b THEN a ELSE b

RECURSIVE big_norm(_)
big_norm(a) ==
    IF a = <<>> THEN a
    ELSE IF a[Len(a)] = 0 THEN big_norm(SubSeq(a, 1, Len(a) - 1)) ELSE a

RECURSIVE big_from(_)
big_from(n) == IF n = 0 THEN <<>> ELSE <<n % Limb>> \o big_from(n \div Limb)

RECURSIVE big_to_int(_)
big_to_int(a) ==
    IF a = <<>> THEN 0 ELSE a[1] + Limb * big_to_int(SubSeq(a, 2, Len(a)))

limb(a, i) == IF i <= Len(a) THEN a[i] ELSE 0

RECURSIVE big_add_from(_, _, _, _)
big_add_from(a, b, i, c) ==
    IF i > Max(Len(a), Len(b)) THEN (IF c = 0 THEN <<>> ELSE <<c>>)
    ELSE LET s == limb(a, i) + limb(b, i) + c
         IN  <<s % Limb>> \o big_add_from(a, b, i + 1, s \div Limb)
big_add(a, b) == big_add_from(a, b, 1, 0)

\* a - b for a >= b
RECURSIVE big_sub_from(_, _, _, _)
big_sub_from(a, b, i, c) ==
    IF i > Len(a) THEN <<>>
    ELSE LET s == limb(a, i) - limb(b, i) - c
         IN  IF s < 0 THEN <<s + Limb>> \o big_sub_from(a, b, i + 1, 1)
             ELSE <<s>> \o big_sub_from(a, b, i + 1, 0)
big_sub(a, b) == big_norm(big_sub_from(a, b, 1, 0))

\* -1, 0, 1 as a < b, a = b, a > b
RECURSIVE big_cmp_from(_, _, _)
big_cmp_from(a, b, i) ==
    IF i = 0 THEN 0
    ELSE IF a[i] < b[i] THEN 0 - 1
    ELSE IF a[i] > b[i] THEN 1
    ELSE big_cmp_from(a, b, i - 1)
big_cmp(a, b) ==
    IF Len(a) < Len(b) THEN 0 - 1
    ELSE IF Len(a) > Len(b) THEN 1
    ELSE big_cmp_from(a, b, Len(a))

\* a * s for 0 <= s < Limb
RECURSIVE big_mul_small_from(_, _, _, _)
big_mul_small_from(a, s, i, c) ==
    IF i > Len(a) THEN (IF c = 0 THEN <<>> ELSE <<c>>)
    ELSE LET p == a[i] * s + c
         IN  <<p % Limb>> \o big_mul_small_from(a, s, i + 1, p \div Limb)
big_mul_small(a, s) == big_norm(big_mul_small_from(a, s, 1, 0))

big_shl_limbs(a, n) == IF a = <<>> THEN a ELSE [j \in 1..n |-> 0] \o a

RECURSIVE big_mul_from(_, _, _)
big_mul_from(a, b, i) ==
    IF i > Len(b) THEN <<>>
    ELSE big_add(big_shl_limbs(big_mul_small(a, b[i]), i - 1),
                 big_mul_from(a, b, i + 1))
big_mul(a, b) == big_mul_from(a, b, 1)

\* a \div s for 0 < s < Limb
RECURSIVE big_div_small_from(_, _, _, _)
big_div_small_from(a, s, i, r) ==
    IF i = 0 THEN <<>>
    ELSE LET cur == r * Limb + a[i]
         IN  big_div_small_from(a, s, i - 1, cur % s) \o <<cur \div s>>
big_div_small(a, s) == big_norm(big_div_small_from(a, s, Len(a), 0))

\* a * 2^k and a \div 2^k
big_shl(a, k) == big_shl_limbs(big_mul_small(a, 2 ^ (k % 15)), k \div 15)
big_shr(a, k) ==
    IF k \div 15 >= Len(a) THEN <<>>
    ELSE big_div_small(SubSeq(a, k \div 15 + 1, Len(a)), 2 ^ (k % 15))

RECURSIVE bit_length(_)
bit_length(x) == IF x = 0 THEN 0 ELSE 1 + bit_length(x \div 2)
big_bit_length(a) ==
    IF a = <<>> THEN 0 ELSE 15 * (Len(a) - 1) + bit_length(a[Len(a)])

\* bit i of a, bit 0 the least significant
big_bit(a, i) == (limb(a, i \div 15 + 1) \div (2 ^ (i % 15))) % 2

\* the largest digit g with g * d <= r, for r < d * Limb and the top limb
\* of d at least Limb / 2: the estimate from the leading limbs, lowered
\* until it fits
RECURSIVE big_digit_from(_, _, _)
big_digit_from(r, d, g) ==
    IF big_cmp(big_mul_small(d, g), r) > 0 THEN big_digit_from(r, d, g - 1) ELSE g
big_digit(r, d) ==
    big_digit_from(r, d,
        Min(Limb - 1,
            (limb(r, Len(d) + 1) * Limb + limb(r, Len(d))) \div d[Len(d)]))

\* long division of n by d, one limb of n at a time from the top
RECURSIVE big_divmod_from(_, _, _, _, _)
big_divmod_from(n, d, i, q, r) ==
    IF i = 0 THEN [q |-> big_norm(q), r |-> r]
    ELSE LET cur == big_norm(<<n[i]>> \o r)
             g == big_digit(cur, d)
         IN  big_divmod_from(n, d, i - 1, <<g>> \o q,
                             big_sub(cur, big_mul_small(d, g)))

\* quotient of n by d # 0 and the remainder scaled by a power of two: both
\* are shifted left first so that the top limb of d is at least Limb / 2
big_divmod(n, d) ==
    LET k == 15 - bit_length(d[Len(d)])
    IN  big_divmod_from(big_shl(n, k), big_shl(d, k), Len(big_shl(n, k)), <<>>, <<>>)

RECURSIVE trailing_zeros(_, _)
trailing_zeros(a, i) == IF big_bit(a, i) = 1 THEN i ELSE trailing_zeros(a, i + 1)

fp_zero == [neg |-> FALSE, m |-> <<>>, e |-> 0]

\* the double of value (-1)^neg * m * 2^e, m below 2^53 or a power of two
fp_exact(neg, m, e) ==
    IF m = <<>> THEN fp_zero
    ELSE LET tz == trailing_zeros(m, 0)
         IN  [neg |-> neg, m |-> big_shr(m, tz), e |-> e + tz]

\* the double nearest to (-1)^neg * x * 2^e, ties to the even mantissa
fp_round(neg, x, e) ==
    IF big_bit_length(x) <= MantissaBits THEN fp_exact(neg, x, e)
    ELSE LET k == big_bit_length(x) - MantissaBits
             q == big_shr(x, k)
             c == big_cmp(big_sub(x, big_shl(q, k)), big_shl(<<1>>, k - 1))
             up == c > 0 \/ (c = 0 /\ big_bit(q, 0) = 1)
         IN  fp_exact(neg, IF up THEN big_add(q, <<1>>) ELSE q, e + k)

\* the double of an int
fp_int(n) == fp_exact(n < 0, big_from(IF n < 0 THEN 0 - n ELSE n), 0)

fp_neg(a) == IF a.m = <<>> THEN a ELSE [a EXCEPT !.neg = ~a.neg]

\* a * b
fp_mul(a, b) == fp_round(a.neg # b.neg, big_mul(a.m, b.m), a.e + b.e)

\* a + b
fp_add(a, b) ==
    IF a.m = <<>> THEN b
    ELSE IF b.m = <<>> THEN a
    ELSE LET e == Min(a.e, b.e)
             x == big_shl(a.m, a.e - e)
             y == big_shl(b.m, b.e - e)
         IN  IF a.neg = b.neg THEN fp_round(a.neg, big_add(x, y), e)
             ELSE IF big_cmp(x, y) >= 0 THEN fp_round(a.neg, big_sub(x, y), e)
             ELSE fp_round(b.neg, big_sub(y, x), e)

\* a - b
fp_sub(a, b) == fp_add(a, fp_neg(b))

\* a / b for b # 0: the quotient to 56 bits or more and a sticky bit
fp_div(a, b) ==
    IF a.m = <<>> THEN fp_zero
    ELSE LET s == Max(0, MantissaBits + 3 + big_bit_length(b.m) - big_bit_length(a.m))
             d == big_divmod(big_shl(a.m, s), b.m)
             x == big_add(big_add(d.q, d.q), IF d.r = <<>> THEN <<>> ELSE <<1>>)
         IN  fp_round(a.neg # b.neg, x, a.e - b.e - s - 1)

\* a < b
fp_less(a, b) ==
    LET d == fp_sub(a, b) IN d.m # <<>> /\ d.neg

\* std::ceil(a) as an integer
fp_ceil(a) ==
    IF a.e >= 0 THEN (IF a.neg THEN 0 - 1 ELSE 1) * big_to_int(big_shl(a.m, a.e))
    ELSE LET q == big_shr(a.m, 0 - a.e)
             whole == big_shl(q, 0 - a.e) = a.m
         IN  IF a.neg THEN 0 - big_to_int(q)
             ELSE big_to_int(q) + (IF whole THEN 0 ELSE 1)

\* the double a decimal literal num/den denotes
fp_literal(num, den) == fp_div(fp_int(num), fp_int(den))

\* std::abs(a)
fp_abs(a) == [a EXCEPT !.neg = FALSE]

\* std::round(a) as an integer: halves away from zero
fp_round_away(a) ==
    IF a.e >= 0 THEN (IF a.neg THEN 0 - 1 ELSE 1) * big_to_int(big_shl(a.m, a.e))
    ELSE (IF a.neg THEN 0 - 1 ELSE 1) *
             (big_to_int(big_shr(a.m, 0 - a.e)) + big_bit(a.m, 0 - a.e - 1))

---------------------------------------------------------------------------
(* The constructor in double arithmetic.  The arguments are the literals   *)
(* a caller writes: opening, up and down whole numbers, tick num / den.    *)

\* min_price_, max_price_ and total_levels_ as the constructor computes them
pm_config_double_short(a) ==
    LET opening == fp_int(a.opening)
        tick == fp_literal(a.tick.num, a.tick.den)
        lo == fp_mul(opening, fp_sub(fp_int(1), fp_div(fp_int(a.down), fp_int(100))))
        hi == fp_mul(opening, fp_add(fp_int(1), fp_div(fp_int(a.up), fp_int(100))))
    IN  [opening_price_ |-> opening, min_price_ |-> lo, max_price_ |-> hi,
         tick_size_ |-> tick,
         total_levels_ |-> fp_ceil(fp_div(fp_sub(hi, lo), tick))]
pm_config_double(a) ==
    LET opening == fp_int(a.opening)
        tick == fp_literal(a.tick.num, a.tick.den)
        lo == fp_mul(opening, fp_sub(fp_int(1), fp_div(fp_int(a.down), fp_int(100))))
        hi == fp_mul(opening, fp_add(fp_int(1), fp_div(fp_int(a.up), fp_int(100))))
    IN  [opening_price_ |-> opening, min_price_ |-> lo, max_price_ |-> hi,
         tick_size_ |-> tick,
         total_levels_ |-> fp_ceil(fp_div(fp_sub(hi, lo), tick)) + 1]

\* price_map(double, double, double, double) on literals
pm_construct_double(a, h) ==
    IF ~fp_less(fp_zero, fp_literal(a.tick.num, a.tick.den))
    THEN CtorFailed("invalid_argument", TickNotPositive, h)
    ELSE IF fp_less(fp_int(a.up), fp_zero) \/ fp_less(fp_int(a.down), fp_zero)
    THEN CtorFailed("invalid_argument", LimitNegative, h)
    ELSE CHOOSE o \in {[threw |-> "none", what |-> "",
                         cfg |-> c,
                         data |-> reserved,
                         occ |-> [i \in 1..c.total_levels_ |-> FALSE],
                         cnt |-> 0, heap |-> h + Len(reserved)] :
                            c \in {pm_config_double(a)},
                            reserved \in {reserve(<<>>, DataChunkSize, h, DataReserve)}} : TRUE

\* double ticks = (price - min_price_) / tick_size_, and std::round(ticks)
ticks_double(c, price) == fp_div(fp_sub(price, c.min_price_), c.tick_size_)
rounded_ticks_double(c, price) == fp_round_away(ticks_double(c, price))

\* the literal 1e-9
Epsilon == fp_literal(1, 10 ^ 9)

\* bool is_valid_price(double price) const, on doubles
is_valid_price_double(c, price) ==
    IF fp_less(price, c.min_price_) \/ fp_less(c.max_price_, price) THEN FALSE
    ELSE \E ticks \in {ticks_double(c, price)} :
             fp_less(fp_abs(fp_sub(ticks, fp_int(fp_round_away(ticks)))), Epsilon)

\* size_type price_to_index(double price) const, on doubles, for a price
\* within [min_price_, max_price_]
price_to_index_double(c, price) ==
    CHOOSE r \in {IF index >= c.total_levels_ THEN c.total_levels_ - 1 ELSE index :
                      index \in {rounded_ticks_double(c, price)}} : TRUE

\* double index_to_price(size_type index) const, on doubles
index_to_price_double(c, index) ==
    fp_add(c.min_price_, fp_mul(fp_int(index), c.tick_size_))

\* size_type capacity() const / size_type max_size() const
pm_capacity(c) == c.total_levels_
pm_max_size(c) == c.total_levels_

\* the literals tried: price_map<Order> book(100.0, 10.0, 10.0, 0.01) and
\* its neighbours
DoubleArgs ==
    [opening : {50, 100, 200}, up : {0, 5, 10}, down : {0, 5, 10},
     tick : {[num |-> 0, den |-> 1], [num |-> 1, den |-> 100],
             [num |-> 5, den |-> 100], [num |-> 1, den |-> 10],
             [num |-> 1, den |-> 2], [num |-> 1, den |-> 1]}]

ConstructDouble(a) ==
    /\ ret.op = "ctor"
    /\ cfg = NoConfig
    /\ \E o \in {pm_construct_double(a, heap)} :
           /\ cfg' = o.cfg
           /\ data_' = o.data
           /\ occupied_' = o.occ
           /\ size_count_' = o.cnt
           /\ heap' = o.heap
           /\ ret' = [NoRet EXCEPT !.op = "construct", !.arg = a,
                                   !.threw = o.threw, !.what = o.what]
    /\ UNCHANGED <<m_chunks, appended, ref, other, seqVars>>

Capacity ==
    /\ ret.op = "construct" /\ ret.threw = "none"
    /\ ret' = [ret EXCEPT !.op = "capacity", !.val = pm_capacity(cfg)]
    /\ UNCHANGED <<m_chunks, heap, appended, mapVars, seqVars>>

MaxSize ==
    /\ ret.op = "construct" /\ ret.threw = "none"
    /\ ret' = [ret EXCEPT !.op = "max_size", !.val = pm_max_size(cfg)]
    /\ UNCHANGED <<m_chunks, heap, appended, mapVars, seqVars>>

\* the prices tried on a map constructed from the literals a: the ends of
\* the range, the opening price, and at the levels next to the ends the
\* price index_to_price gives, the decimal literal of that level and of
\* half a tick above it
ProbeLevels(c) == {0, 1, c.total_levels_ - 2, c.total_levels_ - 1} \cap Nat
LevelLiteral(a, i, halves) ==
    fp_literal(a.opening * (100 - a.down) * a.tick.den * 2
                   + (2 * i + halves) * a.tick.num * 100,
               200 * a.tick.den)
DoublePrices(a, c) ==
    {c.min_price_, c.max_price_, c.opening_price_}
        \cup {index_to_price_double(c, i) : i \in ProbeLevels(c)}
        \cup {LevelLiteral(a, i, 0) : i \in ProbeLevels(c)}
        \cup {LevelLiteral(a, i, 1) : i \in ProbeLevels(c)}

\* a valid price is mapped to its index
PriceToIndex(level) ==
    /\ ret.op \in {"construct", "price_to_index"} /\ ret.threw = "none"
    /\ \E price \in {LevelLiteral(ret.arg, level, 0)} :
           /\ is_valid_price_double(cfg, price)
           /\ ret' = [ret EXCEPT !.op = "price_to_index",
                                 !.val = price_to_index_double(cfg, price)]
    /\ UNCHANGED <<m_chunks, heap, appended, mapVars, seqVars>>

NextDouble ==
    \/ \E a \in DoubleArgs : ConstructDouble(a)
    \/ Capacity
    \/ MaxSize
    \/ \E level \in ProbeLevels(cfg) : PriceToIndex(level)

\* maps constructed from literals, their configuration read back
SpecDouble == InitVec /\ [][NextDouble]_vars

---------------------------------------------------------------------------
(* The sparse price map: a key -> slot index lookup over a stable_vector   *)
(* of pairs and a pool of erased slot indices                              *)

\* insert(key, value): the slot of a key already present is returned; a
\* new key takes a slot index popped from the reuse pool and overwrites
\* the slot in place, or is appended when the pool is empty
sp_insert(m, h, key, value) ==
    IF key \in DOMAIN m.slot
    THEN [map |-> m, heap |-> h, flag |-> FALSE, index |-> m.slot[key]]
    ELSE LET reuse == m.free # <<>>
             index == IF reuse THEN Last(m.free) ELSE sv_size(m.data, DataChunkSize)
             pair == [first |-> key, second |-> value]
         IN  [map |-> [data |-> IF reuse
                                THEN slot_write(m.data, DataChunkSize, index, pair)
                                ELSE emplace_back(m.data, DataChunkSize, h, pair),
                       slot |-> [k \in DOMAIN m.slot \cup {key} |->
                                    IF k = key THEN index ELSE m.slot[k]],
                       free |-> IF reuse THEN SubSeq(m.free, 1, Len(m.free) - 1)
                                ELSE m.free,
                       size |-> m.size + 1],
              heap |-> IF reuse THEN h ELSE h + push_allocs(m.data, DataChunkSize),
              flag |-> TRUE, index |-> index]

\* erase(key): the slot index goes to the reuse pool, the key leaves the lookup
sp_erase(m, key) ==
    IF key \notin DOMAIN m.slot THEN [map |-> m, count |-> 0]
    ELSE [map |-> [data |-> m.data,
                   slot |-> [k \in DOMAIN m.slot \ {key} |-> m.slot[k]],
                   free |-> Append(m.free, m.slot[key]),
                   size |-> m.size - 1],
          count |-> 1]

\* the keys tried on the sparse map
SparseKeys == {16, 20, 24}

SparseInsert(key, value) ==
    /\ LET o == sp_insert(sparse, heap, key, value)
       IN  /\ sparse' = o.map
           /\ heap' = o.heap
           /\ ret' = [NoRet EXCEPT !.op = "sparse_insert", !.flag = o.flag,
                                   !.val = o.index]
    /\ UNCHANGED <<m_chunks, appended, mapVars, w, held>>

SparseErase(key) ==
    /\ sparse' = sp_erase(sparse, key).map
    /\ ret' = [NoRet EXCEPT !.op = "sparse_erase",
                            !.val = sp_erase(sparse, key).count]
    /\ UNCHANGED <<m_chunks, heap, appended, mapVars, w, held>>

NextSparse ==
    \/ \E key \in SparseKeys, value \in Values : SparseInsert(key, value)
    \/ \E key \in SparseKeys : SparseErase(key)

SpecSparse == InitVec /\ [][NextSparse]_vars

---------------------------------------------------------------------------
(* The map under test *)

\* the constructor arguments tried: prices in units of a quarter tick
MapArgs == {[opening |-> 20, up |-> 20, down |-> 20, tick |-> 4]}

\* below the range, on the grid, within epsilon of it, off it, above the range
Prices == {15, 16, 17, 18, 20, 24, 25}
MapValues == Values

InitMap ==
    /\ \E a \in MapArgs :
         /\ cfg = pm_config(a)
         /\ occupied_ = [i \in 1..pm_config(a).total_levels_ |-> FALSE]
    /\ data_ = reserve(<<>>, DataChunkSize, 0, DataReserve)
    /\ heap = Len(data_)
    /\ size_count_ = 0
    /\ ref = NoHeld
    /\ other = NoMap
    /\ w = NoSeq
    /\ held = NoIt
    /\ sparse = NoSparse
    /\ ret = NoRet
    /\ m_chunks = <<>>
    /\ appended = <<>>

DataLoc(o) ==
    IF o.threw = "none" /\ o.index >= 0 /\ slot_exists(o.data, DataChunkSize, o.index)
    THEN index_loc(o.data, DataChunkSize, o.index)
    ELSE NoRef

\* what the caller gets back; the key and value passed are not kept
Returned(name, o) ==
    [op |-> name, arg |-> 0, val |-> o.val, threw |-> o.threw, what |-> o.what,
     loc |-> DataLoc(o), flag |-> o.flag]

Apply(o) ==
    /\ data_' = o.data
    /\ occupied_' = o.occ
    /\ size_count_' = o.cnt
    /\ heap' = o.heap
    /\ UNCHANGED <<cfg, m_chunks, appended, other, seqVars>>

Insert(key, value) ==
    LET o == pm_insert(cfg, data_, occupied_, size_count_, heap, key, value)
    IN  /\ Apply(o)
        /\ ret' = Returned("insert", o)
        /\ UNCHANGED ref

Emplace(key, value) ==
    LET o == pm_emplace(cfg, data_, occupied_, size_count_, heap, key, value)
    IN  /\ Apply(o)
        /\ ret' = Returned("emplace", o)
        /\ UNCHANGED ref

\* the caller keeps the reference operator[] returns
Subscript(key) ==
    LET o == pm_subscript(cfg, data_, occupied_, size_count_, heap, key)
    IN  /\ Apply(o)
        /\ ret' = Returned("subscript", o)
        /\ ref' = IF o.threw = "none" THEN [loc |-> DataLoc(o), key |-> key] ELSE ref

MapAt(key) ==
    LET o == pm_at(cfg, data_, occupied_, size_count_, heap, key)
    IN  /\ Apply(o)
        /\ ret' = Returned("map_at", o)
        /\ UNCHANGED ref

Erase(key) ==
    LET o == pm_erase(cfg, data_, occupied_, size_count_, heap, key)
    IN  /\ Apply(o)
        /\ ret' = [Returned("erase", o) EXCEPT !.loc = NoRef]
        /\ UNCHANGED ref

\* erase(pos) with an iterator of this map; the iterator returned is kept
\* as its index
EraseIter(pos) ==
    LET o == pm_erase_iter(data_, occupied_, size_count_, heap, pos)
    IN  /\ Apply(o)
        /\ ret' = [Returned("erase_iter", o) EXCEPT !.val = o.index, !.loc = NoRef]
        /\ UNCHANGED ref

Clear ==
    LET o == pm_clear(data_, occupied_, size_count_, heap)
    IN  /\ Apply(o)
        /\ ret' = Returned("clear", o)
        /\ UNCHANGED ref

\* find(key): the index of the iterator and whether it differs from end()
Find(key) ==
    /\ ret' = [NoRet EXCEPT !.op = "find",
                            !.val = pm_find(cfg, data_, occupied_, key),
                            !.flag = pm_find(cfg, data_, occupied_, key)
                                        # pm_end(data_, occupied_)]
    /\ UNCHANGED <<cfg, data_, occupied_, size_count_, heap, ref, m_chunks, appended, other, seqVars>>

Count(key) ==
    /\ ret' = [NoRet EXCEPT !.op = "count", !.val = pm_count(cfg, occupied_, key)]
    /\ UNCHANGED <<cfg, data_, occupied_, size_count_, heap, ref, m_chunks, appended, other, seqVars>>

Contains(key) ==
    /\ ret' = [NoRet EXCEPT !.op = "contains", !.flag = pm_contains(cfg, occupied_, key)]
    /\ UNCHANGED <<cfg, data_, occupied_, size_count_, heap, ref, m_chunks, appended, other, seqVars>>

\* a loop from begin() to end() that counts the entries it visits
Iterate ==
    /\ ret' = [NoRet EXCEPT !.op = "iterate",
                            !.val = Len(pm_visit(data_, occupied_,
                                                 pm_begin(data_, occupied_)))]
    /\ UNCHANGED <<cfg, data_, occupied_, size_count_, heap, ref, m_chunks, appended, other, seqVars>>

\* the caller assigns through the reference it kept: the chunk and offset
\* it names receive the value
WriteRef(value) ==
    /\ ref # NoHeld
    /\ data_' = ref_write(data_, ref.loc, value)
    /\ ret' = [NoRet EXCEPT !.op = "write_ref", !.loc = ref.loc]
    /\ UNCHANGED <<cfg, occupied_, size_count_, heap, ref, m_chunks, appended, other, seqVars>>

---------------------------------------------------------------------------
(* Two maps of one configuration, compared *)

\* the prices tried on the two maps: two that share a tick, one off the
\* grid, one on the next tick
PairPrices == {16, 17, 18, 20}

\* the members of the first map
This == [data |-> data_, occ |-> occupied_, cnt |-> size_count_]

InitPair ==
    /\ \E a \in MapArgs :
         /\ cfg = pm_config(a)
         /\ occupied_ = [i \in 1..pm_config(a).total_levels_ |-> FALSE]
         /\ other = [data |-> reserve(<<>>, DataChunkSize,
                                      Len(reserve(<<>>, DataChunkSize, 0, DataReserve)),
                                      DataReserve),
                     occ |-> [i \in 1..pm_config(a).total_levels_ |-> FALSE],
                     cnt |-> 0]
    /\ data_ = reserve(<<>>, DataChunkSize, 0, DataReserve)
    /\ heap = Len(data_) + Len(other.data)
    /\ size_count_ = 0
    /\ ref = NoHeld
    /\ ret = NoRet
    /\ m_chunks = <<>>
    /\ appended = <<>>
    /\ w = NoSeq
    /\ held = NoIt
    /\ sparse = NoSparse

OtherApply(o) ==
    /\ other' = [data |-> o.data, occ |-> o.occ, cnt |-> o.cnt]
    /\ heap' = o.heap
    /\ UNCHANGED <<cfg, data_, occupied_, size_count_, ref, m_chunks, appended, seqVars>>

OtherInsert(key, value) ==
    LET o == pm_insert(cfg, other.data, other.occ, other.cnt, heap, key, value)
    IN  /\ OtherApply(o)
        /\ ret' = Returned("other_insert", o)

OtherErase(key) ==
    LET o == pm_erase(cfg, other.data, other.occ, other.cnt, heap, key)
    IN  /\ OtherApply(o)
        /\ ret' = [Returned("other_erase", o) EXCEPT !.loc = NoRef]

OtherClear ==
    LET o == pm_clear(other.data, other.occ, other.cnt, heap)
    IN  /\ OtherApply(o)
        /\ ret' = Returned("other_clear", o)

\* *this == other
Equal ==
    /\ ret' = [NoRet EXCEPT !.op = "equal", !.flag = pm_equal(cfg, This, other)]
    /\ UNCHANGED <<cfg, data_, occupied_, size_count_, heap, ref, m_chunks, appended, other, seqVars>>

\* *this != other
NotEqual ==
    /\ ret' = [NoRet EXCEPT !.op = "not_equal", !.flag = pm_not_equal(cfg, This, other)]
    /\ UNCHANGED <<cfg, data_, occupied_, size_count_, heap, ref, m_chunks, appended, other, seqVars>>

NextPair ==
    \/ \E k \in PairPrices, v \in MapValues : Insert(k, v)
    \/ \E k \in PairPrices : Erase(k)
    \/ Clear
    \/ \E k \in PairPrices, v \in MapValues : OtherInsert(k, v)
    \/ \E k \in PairPrices : OtherErase(k)
    \/ OtherClear
    \/ Equal
    \/ NotEqual
    \/ \E k \in PairPrices : MapAt(k)
    \/ \E k \in PairPrices : Find(k)
    \/ \E k \in PairPrices : Count(k)
    \/ \E k \in PairPrices : Contains(k)

SpecPair == InitPair /\ [][NextPair]_vars

---------------------------------------------------------------------------
(* One map *)

NextMap ==
    \/ \E k \in Prices, v \in MapValues : Insert(k, v)
    \/ \E k \in Prices, v \in MapValues : Emplace(k, v)
    \/ \E k \in Prices : Subscript(k)
    \/ \E k \in Prices : MapAt(k)
    \/ \E k \in Prices : Erase(k)
    \/ \E pos \in pm_iterators(data_, occupied_) : EraseIter(pos)
    \/ Clear
    \/ \E k \in Prices : Find(k)
    \/ \E k \in Prices : Count(k)
    \/ \E k \in Prices : Contains(k)
    \/ Iterate
    \/ \E v \in MapValues : WriteRef(v)

SpecMap == InitMap /\ [][NextMap]_vars

---------------------------------------------------------------------------
(* Claims about the sequence *)

CeilToMultiple(n, c) == ((n + c - 1) \div c) * c

\* C1: after N appends to a new sequence, size() = N and operator[](i) is
\* the i-th appended value for every i < N  (SpecAppend)
C1_AppendsIndexed ==
    /\ size = Len(appended)
    /\ \A i \in 0..(Len(appended) - 1) :
          /\ slot_constructed(m_chunks, ChunkSize, i)
          /\ index_val(m_chunks, ChunkSize, i) = appended[i + 1].val

C1_Witness ==
    /\ Len(appended) = ChunkSize + 1
    /\ size = ChunkSize + 1
    /\ Len(m_chunks) = 2
    /\ appended[1].val # appended[2].val

\* C2: the chunk, the offset and the value recorded when an element was
\* stored are those found there after any later append or reserve, and
\* operator[] of its index still names that location  (SpecVec)
C2_ReferenceStable ==
    \A k \in 1..Len(appended) :
        LET e == appended[k]
            i == (e.pos - 1) * ChunkSize + e.loc.off
        IN  /\ e.pos <= Len(m_chunks)
            /\ m_chunks[e.pos].id = e.loc.chunk
            /\ e.loc.off + 1 <= Len(m_chunks[e.pos].elems)
            /\ m_chunks[e.pos].elems[e.loc.off + 1] = e.val
            /\ index_loc(m_chunks, ChunkSize, i) = e.loc

C2_Witness ==
    /\ Len(appended) >= 3
    /\ appended[1].pos < appended[3].pos
    /\ ret.op = "reserve" /\ ret.val > 0

\* C3 (as claimed): every chunk but the last is full and size() is the
\* number of elements appended  (SpecVec)
C3_ChunksFull ==
    /\ \A c \in 1..(Len(m_chunks) - 1) : Len(m_chunks[c].elems) = ChunkSize
    /\ size = Len(appended)

\* C4: after N appends to a new sequence, capacity() is N rounded up to a
\* multiple of ChunkSize  (SpecAppend)
C4_CapacityCeil == capacity = CeilToMultiple(Len(appended), ChunkSize)

C4_Witness ==
    /\ Len(appended) = ChunkSize + 1
    /\ capacity = 2 * ChunkSize
    /\ ret.op \in {"push_back", "emplace_back"}

\* C5 (as claimed): reserve(n) leaves capacity() the smallest multiple of
\* ChunkSize >= max(n, previous capacity), and allocates nothing when
\* n <= previous capacity  (SpecVec)
C5_ReserveCapacity ==
    ret.op = "reserve" =>
        LET before == capacity - ret.val * ChunkSize
        IN  /\ capacity = CeilToMultiple(Max(ret.arg, before), ChunkSize)
            /\ capacity >= ret.arg
            /\ capacity >= before
            /\ (ret.arg <= before => ret.val = 0)

\* C6: at(i) throws out_of_range exactly when i >= size(); otherwise it
\* refers to the slot operator[](i) names and reads the element there; the
\* sequence is unchanged either way  (SpecVec)
C6_AtChecked ==
    [][ret'.op = "at" =>
        /\ m_chunks' = m_chunks
        /\ (ret'.threw = "out_of_range") = (ret'.arg >= size)
        /\ ret'.threw \in {"none", "out_of_range"}
        /\ ret'.threw = "none" =>
              /\ ret'.loc = index_loc(m_chunks, ChunkSize, ret'.arg)
              /\ slot_constructed(m_chunks, ChunkSize, ret'.arg) =>
                    ret'.val = index_val(m_chunks, ChunkSize, ret'.arg)]_vars

C6_Witness ==
    /\ ret.op = "at" /\ ret.threw = "out_of_range"
    /\ ret.arg = size /\ size > 0

---------------------------------------------------------------------------
(* Claims about the map *)

\* price p lies on grid point n, within the epsilon of is_valid_price
OnGrid(c, p, n) ==
    Abs((p - c.min_price_) - n * c.tick_size_) * EpsilonInv < c.tick_size_
Levels(c) == 0..(c.total_levels_ - 1)
ValidPrice(c, p) ==
    /\ c.min_price_ <= p /\ p <= c.max_price_
    /\ \E n \in Levels(c) : OnGrid(c, p, n)
LiveAt(c, occ, p) ==
    /\ c.min_price_ <= p /\ p <= c.max_price_
    /\ \E n \in Levels(c) : OnGrid(c, p, n) /\ occ[n + 1]
GridIndex(c, p) == CHOOSE n \in Levels(c) : OnGrid(c, p, n)
InsertNow(k, v) == pm_insert(cfg, data_, occupied_, size_count_, heap, k, v)
EmplaceNow(k, v) == pm_emplace(cfg, data_, occupied_, size_count_, heap, k, v)
SubscriptNow(k) == pm_subscript(cfg, data_, occupied_, size_count_, heap, k)
AtNow(k) == pm_at(cfg, data_, occupied_, size_count_, heap, k)
EraseNow(k) == pm_erase(cfg, data_, occupied_, size_count_, heap, k)
AtAfter(o, k) == pm_at(cfg, o.data, o.occ, o.cnt, o.heap, k)
\* the call with outcome o left the map as it was
Untouched(o) ==
    /\ o.data = data_
    /\ o.occ = occupied_
    /\ o.cnt = size_count_
    /\ o.heap = heap

\* C7: insert(price, value) with a valid price, called in any reachable
\* state: on a live price it returns false and changes nothing; otherwise it
\* returns true, size() grows by one, the price is live and at(price)
\* returns value  (SpecMap)
C7_InsertContract ==
    \A k \in Prices, v \in MapValues :
        ValidPrice(cfg, k) =>
            LET o == InsertNow(k, v)
            IN  /\ o.threw = "none"
                /\ IF LiveAt(cfg, occupied_, k)
                   THEN /\ o.flag = FALSE
                        /\ Untouched(o)
                        /\ o.val = AtNow(k).val
                   ELSE /\ o.flag = TRUE
                        /\ o.cnt = size_count_ + 1
                        /\ LiveAt(cfg, o.occ, k)
                        /\ AtAfter(o, k).threw = "none"
                        /\ AtAfter(o, k).val = v

C7_Witness ==
    /\ ret.op = "insert" /\ ret.threw = "none" /\ ret.flag = FALSE
    /\ ret.val = DefaultT
    /\ size_count_ >= 2

\* C8: operator[](price) with a valid price, called in any reachable state:
\* on a live price it returns the stored value and changes nothing;
\* otherwise the price becomes live with value T{} and size() grows by one;
\* a write through a reference it returned earlier is what at(price) reads
\* afterwards  (SpecMap)
C8_SubscriptContract ==
    /\ \A k \in Prices :
          ValidPrice(cfg, k) =>
              LET o == SubscriptNow(k)
              IN  /\ o.threw = "none"
                  /\ o.index = GridIndex(cfg, k)
                  /\ IF LiveAt(cfg, occupied_, k)
                     THEN /\ o.val = AtNow(k).val
                          /\ Untouched(o)
                     ELSE /\ o.val = DefaultT
                          /\ o.cnt = size_count_ + 1
                          /\ LiveAt(cfg, o.occ, k)
                          /\ AtAfter(o, k).threw = "none"
                          /\ AtAfter(o, k).val = DefaultT
    /\ \A v \in MapValues :
          (ref # NoHeld /\ LiveAt(cfg, occupied_, ref.key)) =>
              LET written == ref_write(data_, ref.loc, v)
                  got == pm_at(cfg, written, occupied_, size_count_, heap, ref.key)
              IN  got.threw = "none" /\ got.val = v

C8_Witness ==
    /\ ret.op = "write_ref"
    /\ LiveAt(cfg, occupied_, ref.key)
    /\ AtNow(ref.key).val # DefaultT
    /\ sv_size(data_, DataChunkSize) > GridIndex(cfg, ref.key) + 1

\* C9: erase(price), called in any reachable state, returns 1 exactly when
\* the price was live; then contains(price) is false, find(price) is end()
\* and size() is one less; otherwise it returns 0 and size() and the live
\* set are as before  (SpecMap)
C9_EraseContract ==
    \A k \in Prices :
        LET o == EraseNow(k)
        IN  /\ o.threw = "none"
            /\ IF LiveAt(cfg, occupied_, k)
               THEN /\ o.val = 1
                    /\ ~pm_contains(cfg, o.occ, k)
                    /\ pm_find(cfg, o.data, o.occ, k) = pm_end(o.data, o.occ)
                    /\ o.cnt = size_count_ - 1
               ELSE /\ o.val = 0
                    /\ o.cnt = size_count_
                    /\ o.occ = occupied_

C9_Witness ==
    /\ ret.op = "erase" /\ ret.val = 1
    /\ size_count_ >= 1
    /\ sv_size(data_, DataChunkSize) > DataChunkSize

\* the call with outcome o threw out_of_range and had no effect
Rejected(o) == o.threw = "out_of_range" /\ Untouched(o)

\* C10: insert, emplace, operator[] and at with a price below min_price,
\* above max_price or off the tick grid, called in any reachable state,
\* throw out_of_range and leave size(), the live set, the stored values and
\* the sequence size as they were  (SpecMap)
C10_InvalidPriceRejected ==
    \A k \in Prices :
        ~ValidPrice(cfg, k) =>
            /\ \A v \in MapValues : Rejected(InsertNow(k, v))
            /\ \A v \in MapValues : Rejected(EmplaceNow(k, v))
            /\ Rejected(SubscriptNow(k))
            /\ Rejected(AtNow(k))

C10_Witness ==
    /\ ret.op \in {"insert", "emplace", "subscript"}
    /\ ret.threw = "out_of_range" /\ ret.what = InvalidPrice
    /\ size_count_ >= 1
    /\ sv_size(data_, DataChunkSize) < cfg.total_levels_

\* the value the slot of a live price holds
StoredValue(chunks, c, p) == index_val(chunks, DataChunkSize, GridIndex(c, p)).second

\* C11 (as claimed): at(price) on a valid price that is not live fails with
\* an error of a kind other than out_of_range and leaves the map as it
\* was  (SpecMap)
C11_AtKeyNotFoundKind ==
    \A k \in Prices :
        (ValidPrice(cfg, k) /\ ~LiveAt(cfg, occupied_, k)) =>
            LET o == AtNow(k)
            IN  /\ o.threw \notin {"none", "out_of_range"}
                /\ Untouched(o)

\* C11 (amended): at(price) on a valid price that is not live throws
\* out_of_range, the kind an invalid price gets too, with the message
\* "price_map::at - key not found" that differs from the invalid-price
\* message, and leaves the map as it was; on a live price it returns the
\* stored value and changes nothing  (SpecMap)
C11_AtContract ==
    \A k \in Prices :
        ValidPrice(cfg, k) =>
            LET o == AtNow(k)
            IN  /\ Untouched(o)
                /\ IF LiveAt(cfg, occupied_, k)
                   THEN /\ o.threw = "none"
                        /\ o.index = GridIndex(cfg, k)
                        /\ o.val = StoredValue(data_, cfg, k)
                   ELSE /\ o.threw = "out_of_range"
                        /\ o.what = KeyNotFound
                        /\ o.what # InvalidPrice

C11_Witness ==
    /\ ret.op = "map_at" /\ ret.threw = "out_of_range" /\ ret.what = KeyNotFound
    /\ size_count_ >= 1
    /\ sv_size(data_, DataChunkSize) = cfg.total_levels_

\* the indices whose occupancy flag is set
LiveIndices(occ) == {i \in 0..(Len(occ) - 1) : occ[i + 1]}

\* C12: in every reachable state of the map, after any sequence of insert,
\* emplace, operator[], erase by key, erase by iterator and clear, size()
\* is the number of occupancy flags set and empty() holds exactly when
\* that number is 0  (SpecMap)
C12_SizeCountsLive ==
    /\ pm_size(size_count_) = Cardinality(LiveIndices(occupied_))
    /\ pm_empty(size_count_) = (Cardinality(LiveIndices(occupied_)) = 0)

C12_Witness ==
    /\ ret.op = "clear"
    /\ pm_empty(size_count_)
    /\ sv_size(data_, DataChunkSize) = cfg.total_levels_
    /\ ref # NoHeld

\* C13: in every reachable state of the map every live index is below
\* data_.size(), and the slot of that index has been constructed  (SpecMap)
C13_LiveWithinSequence ==
    \A i \in LiveIndices(occupied_) :
        /\ i < sv_size(data_, DataChunkSize)
        /\ slot_constructed(data_, DataChunkSize, i)

C13_Witness ==
    /\ ret.op \in {"insert", "emplace", "subscript"} /\ ret.flag
    /\ LiveIndices(occupied_) = {cfg.total_levels_ - 1}
    /\ sv_size(data_, DataChunkSize) = cfg.total_levels_

\* the indices a loop from begin() to end() stops at, in order
Visited == pm_visit(data_, occupied_, pm_begin(data_, occupied_))

\* C14: in every reachable state a loop from begin() to end() stops at
\* exactly the live indices, in strictly ascending order (so each once and
\* no slot that is not live), and the number of stops is size()  (SpecMap)
C14_IterationVisitsLive ==
    /\ {Visited[j] : j \in 1..Len(Visited)} = LiveIndices(occupied_)
    /\ \A j \in 1..(Len(Visited) - 1) : Visited[j] < Visited[j + 1]
    /\ Len(Visited) = pm_size(size_count_)

C14_Witness ==
    /\ ret.op = "iterate" /\ ret.val = 2
    /\ LiveIndices(occupied_) = {0, cfg.total_levels_ - 1}
    /\ cfg.total_levels_ > 2

\* the live indices a call with price k is not about
OtherLive(k) ==
    {n \in LiveIndices(occupied_) : ~(ValidPrice(cfg, k) /\ GridIndex(cfg, k) = n)}

\* the call with outcome o left the slot of index n where and as it was
SlotKept(o, n) ==
    /\ o.occ[n + 1]
    /\ index_loc(o.data, DataChunkSize, n) = index_loc(data_, DataChunkSize, n)
    /\ index_val(o.data, DataChunkSize, n) = index_val(data_, DataChunkSize, n)

\* C15: for a live price K, an insert, emplace or operator[] on another
\* price, called in any reachable state and growing data_ or not, leaves
\* K live in the same chunk at the same offset with the same key and
\* value; and a reference kept from operator[] names the slot of its key
\* after any sequence of later calls  (SpecMap)
C15_MapReferenceStable ==
    /\ \A k \in Prices :
          /\ \A v \in MapValues :
                LET o == InsertNow(k, v) IN \A n \in OtherLive(k) : SlotKept(o, n)
          /\ \A v \in MapValues :
                LET o == EmplaceNow(k, v) IN \A n \in OtherLive(k) : SlotKept(o, n)
          /\ LET o == SubscriptNow(k) IN \A n \in OtherLive(k) : SlotKept(o, n)
    /\ ref # NoHeld =>
          ref.loc = index_loc(data_, DataChunkSize, GridIndex(cfg, ref.key))

C15_Witness ==
    /\ ret.op = "insert" /\ ret.flag
    /\ Len(data_) = 2
    /\ ret.loc.chunk = data_[2].id
    /\ ref.loc.chunk = data_[1].id
    /\ LiveAt(cfg, occupied_, ref.key)
    /\ AtNow(ref.key).val # DefaultT

\* the live entries of a map, each as the tick of its key and its value
LivePairs(c, m) ==
    {<<GridIndex(c, index_val(m.data, DataChunkSize, i).first),
       index_val(m.data, DataChunkSize, i).second>> : i \in LiveIndices(m.occ)}

\* the first map after insert(k, v)
Inserted(k, v) ==
    [data |-> InsertNow(k, v).data, occ |-> InsertNow(k, v).occ,
     cnt |-> InsertNow(k, v).cnt]

\* C16: two maps of one configuration, each after any sequence of insert,
\* erase and clear, compare equal (either way round) exactly when their
\* live entries are the same set of (tick of the price, value) pairs,
\* whatever their erased and backfilled slots hold; and an insert that adds
\* an entry to one of two equal maps leaves them unequal  (SpecPair)
C16_EqualityByLivePairs ==
    /\ pm_equal(cfg, This, other) = (LivePairs(cfg, This) = LivePairs(cfg, other))
    /\ pm_equal(cfg, other, This) = pm_equal(cfg, This, other)
    /\ pm_not_equal(cfg, This, other) = (LivePairs(cfg, This) # LivePairs(cfg, other))
    /\ pm_equal(cfg, This, other) =>
          \A k \in PairPrices, v \in MapValues :
              (InsertNow(k, v).threw = "none" /\ InsertNow(k, v).flag) =>
                  /\ ~pm_equal(cfg, Inserted(k, v), other)
                  /\ ~pm_equal(cfg, other, Inserted(k, v))
                  /\ pm_not_equal(cfg, Inserted(k, v), other)

C16_Witness ==
    /\ ret.op = "equal" /\ ret.flag
    /\ size_count_ = 1
    /\ sv_size(data_, DataChunkSize) # sv_size(other.data, DataChunkSize)
    /\ \E i \in LiveIndices(occupied_) :
          /\ index_val(data_, DataChunkSize, i).first
                # index_val(other.data, DataChunkSize, i).first
          /\ index_val(data_, DataChunkSize, i).second # DefaultT

ClearNow == pm_clear(data_, occupied_, size_count_, heap)

\* C17: after clear(), called in any reachable state, size() is 0, empty()
\* is true, begin() equals end() and contains(p) is false for every price;
\* a second clear() leaves the members exactly as the first did  (SpecMap)
C17_ClearContract ==
    LET o == ClearNow
        again == pm_clear(o.data, o.occ, o.cnt, o.heap)
    IN  /\ pm_size(o.cnt) = 0
        /\ pm_empty(o.cnt)
        /\ pm_begin(o.data, o.occ) = pm_end(o.data, o.occ)
        /\ \A p \in Prices : ~pm_contains(cfg, o.occ, p)
        /\ again = o

C17_Witness ==
    /\ ret.op = "clear"
    /\ size_count_ = 0
    /\ sv_size(data_, DataChunkSize) > DataChunkSize
    /\ \E i \in 0..(sv_size(data_, DataChunkSize) - 1) :
          index_val(data_, DataChunkSize, i).second # DefaultT

\* the live index after i, or none
LaterLive(occ, i) == {j \in LiveIndices(occ) : j > i}
Least(S) == CHOOSE x \in S : \A y \in S : x <= y

\* C18: erase(pos) with an iterator of the map, called in any reachable
\* state: at end() it returns end() and changes nothing; otherwise pos is
\* live, its flag alone is cleared, size() drops by one, the stored slots
\* stay, and the iterator returned is at the least live index above pos,
\* or end() when there is none  (SpecMap)
C18_EraseIterContract ==
    \A pos \in pm_iterators(data_, occupied_) :
        LET o == pm_erase_iter(data_, occupied_, size_count_, heap, pos)
        IN  IF pos = pm_end(data_, occupied_)
            THEN /\ Untouched(o)
                 /\ o.index = pm_end(data_, occupied_)
            ELSE /\ occupied_[pos + 1]
                 /\ o.occ = [occupied_ EXCEPT ![pos + 1] = FALSE]
                 /\ o.cnt = size_count_ - 1
                 /\ o.data = data_
                 /\ o.index = IF LaterLive(occupied_, pos) # {}
                               THEN Least(LaterLive(occupied_, pos))
                               ELSE pm_end(o.data, o.occ)

C18_Witness ==
    /\ ret.op = "erase_iter" /\ ret.flag
    /\ ret.val = cfg.total_levels_ - 1
    /\ LiveIndices(occupied_) = {cfg.total_levels_ - 1}
    /\ cfg.total_levels_ > 2

\* the pair an iterator at index i dereferences to
Deref(chunks, i) == index_val(chunks, DataChunkSize, i)

\* C19: in every reachable state and for every price p, contains(p),
\* count(p) = 1 and find(p) # end() agree, count(p) is 0 or 1, and when
\* find(p) # end() the iterator is at the entry of p: its key lies on the
\* tick of p and its value is the one at(p) returns  (SpecMap)
C19_LookupsAgree ==
    \A p \in Prices :
        LET it == pm_find(cfg, data_, occupied_, p)
            found == it # pm_end(data_, occupied_)
        IN  /\ pm_contains(cfg, occupied_, p) = (pm_count(cfg, occupied_, p) = 1)
            /\ pm_contains(cfg, occupied_, p) = found
            /\ pm_count(cfg, occupied_, p) \in {0, 1}
            /\ found = LiveAt(cfg, occupied_, p)
            /\ found =>
                  /\ it = GridIndex(cfg, p)
                  /\ ValidPrice(cfg, Deref(data_, it).first)
                  /\ GridIndex(cfg, Deref(data_, it).first) = GridIndex(cfg, p)
                  /\ AtNow(p).threw = "none"
                  /\ Deref(data_, it).second = AtNow(p).val

C19_Witness ==
    /\ ret.op = "find" /\ ret.flag
    /\ ret.val >= 1
    /\ ~occupied_[1]
    /\ Deref(data_, ret.val).second # DefaultT

\* C20: emplace(price, args...) and insert(price, T(args...)), called in
\* the same reachable state, have the same outcome: the same flag, size(),
\* occupancy, stored slots and returned position, also when the price is
\* already live or invalid  (SpecMap)
C20_EmplaceAsInsert ==
    \A k \in Prices, v \in MapValues :
        LET e == EmplaceNow(k, v)
            i == InsertNow(k, v)
        IN  /\ e.flag = i.flag
            /\ pm_size(e.cnt) = pm_size(i.cnt)
            /\ e.occ = i.occ
            /\ e.data = i.data
            /\ e.index = i.index
            /\ e.threw = i.threw
            /\ e.val = i.val

C20_Witness ==
    /\ ret.op = "emplace" /\ ret.flag
    /\ ret.val # DefaultT
    /\ size_count_ = cfg.total_levels_

\* C21: erase, find, contains and count with a price below min_price,
\* above max_price or off the tick grid, called in any reachable state,
\* throw nothing: they return 0, end(), false and 0, and the members of
\* the map stay as they were  (SpecMap)
C21_InvalidPriceSilent ==
    \A k \in Prices :
        ~ValidPrice(cfg, k) =>
            LET o == EraseNow(k)
            IN  /\ o.threw = "none"
                /\ o.val = 0
                /\ Untouched(o)
                /\ pm_find(cfg, data_, occupied_, k) = pm_end(data_, occupied_)
                /\ ~pm_contains(cfg, occupied_, k)
                /\ pm_count(cfg, occupied_, k) = 0

\* every level is live, so a lookup that fails was made with an invalid
\* price
C21_Witness ==
    /\ \/ ret.op = "erase" /\ ret.val = 0
       \/ ret.op = "find" /\ ~ret.flag
    /\ ret.threw = "none"
    /\ size_count_ = cfg.total_levels_

\* the arguments the constructor is documented to reject
ConfigRejected(a) == a.tick <= 0 \/ a.up < 0 \/ a.down < 0

\* C22 (as claimed): construction throws invalid_argument exactly when
\* tick_size <= 0 or a limit is negative; with any other arguments it
\* throws nothing and the map is empty, begin() is end() and occupied_ has
\* total_levels_ entries, none set  (SpecCtor)
C22_ConstructionContract ==
    ret.op = "construct" =>
        IF ConfigRejected(ret.arg)
        THEN ret.threw = "invalid_argument"
        ELSE /\ ret.threw = "none"
             /\ pm_size(size_count_) = 0
             /\ pm_empty(size_count_)
             /\ pm_begin(data_, occupied_) = pm_end(data_, occupied_)
             /\ Len(occupied_) = cfg.total_levels_
             /\ LiveIndices(occupied_) = {}

\* the call with outcome o, on a price of index k, grew data_ to
\* max(size, k + 1), and the slots it added below k are not live and found
\* by neither a loop from begin() to end() nor a lookup of their price
GrownLazily(o, k) ==
    LET before == sv_size(data_, DataChunkSize)
        visited == pm_visit(o.data, o.occ, pm_begin(o.data, o.occ))
    IN  /\ o.threw = "none"
        /\ sv_size(o.data, DataChunkSize) = Max(before, k + 1)
        /\ sv_size(o.data, DataChunkSize) <= cfg.total_levels_
        /\ \A i \in before..(k - 1) :
              /\ ~o.occ[i + 1]
              /\ \A j \in 1..Len(visited) : visited[j] # i
              /\ index_val(o.data, DataChunkSize, i).second = DefaultT
              /\ LET p == index_val(o.data, DataChunkSize, i).first
                 IN  /\ pm_find(cfg, o.data, o.occ, p) = pm_end(o.data, o.occ)
                     /\ ~pm_contains(cfg, o.occ, p)
                     /\ pm_count(cfg, o.occ, p) = 0

\* C23: insert, emplace and operator[] with a valid price of index k,
\* called in any reachable state, leave data_.size() at max(previous size,
\* k + 1); the slots added below k are not live, a loop from begin() to
\* end() passes them and lookups of their price miss; data_.size() never
\* exceeds total_levels_  (SpecMap)
C23_LazyGrowth ==
    /\ sv_size(data_, DataChunkSize) <= cfg.total_levels_
    /\ \A k \in Prices :
          ValidPrice(cfg, k) =>
              /\ \A v \in MapValues : GrownLazily(InsertNow(k, v), GridIndex(cfg, k))
              /\ \A v \in MapValues : GrownLazily(EmplaceNow(k, v), GridIndex(cfg, k))
              /\ GrownLazily(SubscriptNow(k), GridIndex(cfg, k))

C23_Witness ==
    /\ ret.op = "subscript" /\ ret.flag
    /\ LiveIndices(occupied_) = {1}
    /\ sv_size(data_, DataChunkSize) = 2
    /\ index_val(data_, DataChunkSize, 0)
          = [first |-> cfg.min_price_, second |-> DefaultT]

\* the call with outcome o kept every slot of data_ and allocated nothing
StorageKept(o) == o.data = data_ /\ o.heap = heap

\* C24: no call on the map, in any reachable state, makes data_.size()
\* smaller; erase by key, erase by iterator and clear leave data_ (its
\* size and every stored pair) as it was and differ from the state before
\* in occupied_ and size_count_ only  (SpecMap)
C24_StorageNeverReclaimed ==
    /\ \A k \in Prices :
          /\ StorageKept(EraseNow(k))
          /\ sv_size(AtNow(k).data, DataChunkSize) >= sv_size(data_, DataChunkSize)
          /\ sv_size(SubscriptNow(k).data, DataChunkSize) >= sv_size(data_, DataChunkSize)
          /\ \A v \in MapValues :
                /\ sv_size(InsertNow(k, v).data, DataChunkSize)
                      >= sv_size(data_, DataChunkSize)
                /\ sv_size(EmplaceNow(k, v).data, DataChunkSize)
                      >= sv_size(data_, DataChunkSize)
    /\ \A pos \in pm_iterators(data_, occupied_) :
          StorageKept(pm_erase_iter(data_, occupied_, size_count_, heap, pos))
    /\ StorageKept(ClearNow)

C24_Witness ==
    /\ ret.op \in {"erase", "erase_iter", "clear"}
    /\ size_count_ = 0
    /\ sv_size(data_, DataChunkSize) = cfg.total_levels_
    /\ \A i \in 0..(cfg.total_levels_ - 1) :
          index_val(data_, DataChunkSize, i).second # DefaultT

\* C25: an iterator obtained as begin() + i keeps, over every later
\* push_back and emplace_back (also those that allocate a chunk), naming
\* the i-th element: *it reads the value it read at first, which is the
\* i-th value appended, and it == begin() + i  (SpecIter)
C25_IteratorStable ==
    held.pos.m_container = "v" =>
        /\ slot_constructed(m_chunks, ChunkSize, held.pos.m_index)
        /\ iterator_deref(m_chunks, ChunkSize, held.pos) = held.seen
        /\ iterator_deref(m_chunks, ChunkSize, held.pos) = appended[held.i + 1].val
        /\ iterator_eq(held.pos, iterator_plus(sv_begin("v"), held.i))

C25_Witness ==
    /\ held.pos.m_container = "v" /\ held.i = 1 /\ held.size = ChunkSize
    /\ Len(m_chunks) > 1
    /\ ret.op = "deref" /\ ret.val = held.seen /\ ret.val # Last(appended).val

\* one step of the two sequences, seen from the copy
CopyStep ==
    /\ ret'.op \in {"copy_ctor", "copy_assign"} =>
          /\ sv_equal(m_chunks', w'.chunks, ChunkSize) = {TRUE}
          /\ blocks(m_chunks') \cap blocks(w'.chunks) = {}
          /\ m_chunks' = m_chunks
          /\ w'.elems = AppendedValues
    /\ ret'.op \in {"push_w", "write_w"} =>
          /\ m_chunks' = m_chunks
          /\ sv_size(w'.chunks, ChunkSize) = Len(w'.elems)
    /\ ret'.op = "assign_empty" =>
          /\ sv_empty(m_chunks')
          /\ w' = w

\* C26: after stable_vector w(v) and after w = v, v == w is true and no
\* chunk belongs to both; w.push_back and w[i] = x change w and leave v as
\* it was, and v = {} empties v and leaves w as it was  (SpecSeq)
C26_CopyIndependent == [][CopyStep]_vars

C26_Witness ==
    /\ ret.op = "copy_assign"
    /\ Len(m_chunks) = 2 /\ Len(w.chunks) = 2
    /\ w.elems = AppendedValues /\ Len(w.elems) = MaxCopied
    /\ \E n \in 1..Len(w.elems) : w.elems[n] # DefaultT

\* one step of the two sequences, seen from a move
MoveStep ==
    ret'.op \in {"move_ctor", "move_assign"} =>
        /\ w'.chunks = m_chunks
        /\ \A i \in 0..(Len(appended) - 1) :
              /\ index_val(w'.chunks, ChunkSize, i) = appended[i + 1].val
              /\ index_loc(w'.chunks, ChunkSize, i) = appended[i + 1].loc
        /\ sv_size(w'.chunks, ChunkSize) = Len(appended)
        /\ sv_empty(m_chunks')
        /\ sv_size(m_chunks', ChunkSize) = 0
        /\ sv_capacity(m_chunks', ChunkSize) = 0
        /\ \A v \in Values :
              LET again == push_back(m_chunks', ChunkSize, heap', v)
              IN  /\ sv_size(again, ChunkSize) = 1
                  /\ index_val(again, ChunkSize, 0) = v
                  /\ blocks(again) \cap blocks(w'.chunks) = {}

\* C27: after stable_vector w(std::move(v)) and after w = std::move(v), w
\* holds the elements v held, in their order and in the storage they had
\* in v; v.empty() is true, v.size() and v.capacity() are 0, and a
\* push_back on v stores one element in a fresh chunk  (SpecSeq)
C27_MoveTransfers == [][MoveStep]_vars

C27_Witness ==
    /\ ret.op = "move_ctor"
    /\ sv_empty(m_chunks)
    /\ Len(w.chunks) = 2 /\ Len(w.elems) = MaxCopied
    /\ blocks(w.chunks) = {0, 1}

\* C28 (as claimed): v == w is true exactly when the same number of
\* elements was appended to both and the elements at every index are
\* equal, whatever reserve did to either  (SpecEq)
C28_EqualityByElements ==
    ret.op = "equal" => (ret.flag <=> AppendedValues = w.elems)

\* the whole number of ticks in the range, in exact arithmetic:
\* ceil(opening * (up + down) / 100 / tick)
ExactTicks(a) ==
    ceil_div(a.opening * (a.up + a.down) * a.tick.den, 100 * a.tick.num)

\* C29 (as claimed): a map constructed from (opening, up, down, tick) has
\* min_price_ = opening * (1 - down / 100), max_price_ = opening *
\* (1 + up / 100) and total_levels_ = ceil((max - min) / tick) + 1, as
\* (100, 10, 10, 0.01) giving 90, 110 and 2001; capacity() and max_size()
\* return total_levels_  (SpecDouble)
C29_ConfigDerivation ==
    (ret.op \in {"construct", "capacity", "max_size"} /\ ret.threw = "none") =>
        /\ cfg.min_price_ = fp_literal(ret.arg.opening * (100 - ret.arg.down), 100)
        /\ cfg.max_price_ = fp_literal(ret.arg.opening * (100 + ret.arg.up), 100)
        /\ cfg.total_levels_ = ExactTicks(ret.arg) + 1
        /\ ret.op = "capacity" => ret.val = cfg.total_levels_
        /\ ret.op = "max_size" => ret.val = cfg.total_levels_

ReserveKeeps ==
    ret'.op = "reserve" =>
        /\ sv_size(m_chunks', ChunkSize) = size
        /\ \A i \in 0..(size - 1) :
              slot_constructed(m_chunks, ChunkSize, i) =>
                  /\ slot_constructed(m_chunks', ChunkSize, i)
                  /\ index_val(m_chunks', ChunkSize, i) = index_val(m_chunks, ChunkSize, i)
AppendAtSize ==
    ret'.op \in {"push_back", "emplace_back"} =>
        /\ slot_constructed(m_chunks', ChunkSize, size)
        /\ index_loc(m_chunks', ChunkSize, size) = BackLoc(m_chunks')
        /\ sv_size(m_chunks', ChunkSize) = size + 1

\* C31 (as claimed): reserve(n) leaves size() and the elements read by index
\* unchanged whatever the state of the last chunk, and an append after a
\* reserve lands at index size() with no gap  (SpecVec)
C31_ReserveFrame == [][ReserveKeeps /\ AppendAtSize]_vars

\* empty(), size() == 0 and begin() == end() agree on a directory
EmptyAgrees(c, chunks) ==
    /\ sv_empty(chunks) <=> (sv_size(chunks, ChunkSize) = 0)
    /\ (sv_size(chunks, ChunkSize) = 0) <=>
           iterator_eq(sv_begin(c), sv_end(c, chunks, ChunkSize))

\* C32 (as claimed): in every reachable state of a sequence, empty() is true
\* iff size() == 0 iff begin() == end()  (SpecVec)
C32_EmptyIffSizeZero ==
    /\ EmptyAgrees("v", m_chunks)
    /\ w.made => EmptyAgrees("w", w.chunks)

\* the slots a call with price k is not about
OtherSlots(k) ==
    {n \in Levels(cfg) : ~(ValidPrice(cfg, k) /\ GridIndex(cfg, k) = n)}

\* the call with outcome o left slot n as live as it was, with its value
SlotSame(o, n) ==
    /\ o.occ[n + 1] = occupied_[n + 1]
    /\ occupied_[n + 1] =>
          index_val(o.data, DataChunkSize, n).second =
              index_val(data_, DataChunkSize, n).second

\* erase(k) followed by insert(k2, v), called in the state at hand
EraseThenInsert(k, k2, v) ==
    LET e == EraseNow(k)
    IN  pm_insert(cfg, e.data, e.occ, e.cnt, e.heap, k2, v)

\* C33: an insert, emplace, operator[] or erase on price K, successful or
\* not, called in any reachable state, leaves the liveness and the stored
\* value of every other price as they were; after erase(K) and insert(K2)
\* with K2 on another tick, K is not live and every key that was live other
\* than K is live with its value  (SpecMap)
C33_OtherPricesUntouched ==
    /\ \A k \in Prices :
          /\ \A v \in MapValues :
                /\ LET o == InsertNow(k, v) IN \A n \in OtherSlots(k) : SlotSame(o, n)
                /\ LET o == EmplaceNow(k, v) IN \A n \in OtherSlots(k) : SlotSame(o, n)
          /\ LET o == SubscriptNow(k) IN \A n \in OtherSlots(k) : SlotSame(o, n)
          /\ LET o == EraseNow(k) IN \A n \in OtherSlots(k) : SlotSame(o, n)
    /\ \A k \in Prices, k2 \in Prices :
          (ValidPrice(cfg, k) /\ ValidPrice(cfg, k2)
               /\ GridIndex(cfg, k) # GridIndex(cfg, k2)) =>
              \A v \in MapValues :
                  LET o == EraseThenInsert(k, k2, v)
                  IN  /\ ~o.occ[GridIndex(cfg, k) + 1]
                      /\ \A n \in LiveIndices(occupied_) \ {GridIndex(cfg, k)} :
                            /\ o.occ[n + 1]
                            /\ index_val(o.data, DataChunkSize, n).second =
                                   index_val(data_, DataChunkSize, n).second

\* an insert succeeded next to a live key while a slot that was written with
\* key 17 and erased lies dead
C33_Witness ==
    /\ ret.op = "insert" /\ ret.flag
    /\ size_count_ = 2
    /\ ~occupied_[1]
    /\ slot_constructed(data_, DataChunkSize, 0)
    /\ index_val(data_, DataChunkSize, 0).first # index_to_price(cfg, 0)

\* the valid prices among those tried, each with its count of ticks rounded
\* and the index it is mapped to
MappedPrices(a, c) ==
    {[price |-> p, ticks |-> rounded_ticks_double(c, p),
      index |-> price_to_index_double(c, p)] :
         p \in {q \in DoublePrices(a, c) : is_valid_price_double(c, q)}}

\* C34: for every tick-aligned price within [min_price, max_price] the index
\* round((p - min_price) / tick_size) is below total_levels, so the clamp
\* changes no index; min_price maps to index 0 and two valid prices on
\* different ticks map to different slots  (SpecDouble)
C34_ClampNeverApplies ==
    (ret.op # "ctor" /\ ret.threw = "none") =>
        \E mapped \in {MappedPrices(ret.arg, cfg)} :
            /\ \A x \in mapped : x.ticks < cfg.total_levels_ /\ x.index = x.ticks
            /\ \E x \in mapped : x.price = cfg.min_price_ /\ x.index = 0
            /\ \A x \in mapped, y \in mapped :
                  x.ticks # y.ticks => x.index # y.index

\* the decimal literal of the highest price of the range 90 .. 110 in hundredths
\* was mapped to index 2000, the last tick below total_levels
C34_Witness ==
    /\ ret.op = "price_to_index"
    /\ ret.arg = [opening |-> 100, up |-> 10, down |-> 10, tick |-> [num |-> 1, den |-> 100]]
    /\ ret.val = 2000

\* a step that is a lookup leaves the members of the map as they were
LookupStep ==
    ret'.op \in {"map_at", "find", "count", "contains", "equal", "not_equal"} =>
        /\ size_count_' = size_count_
        /\ occupied_' = occupied_
        /\ data_' = data_
        /\ sv_size(data_', DataChunkSize) = sv_size(data_, DataChunkSize)
        /\ other' = other

\* C35: at, find, contains, count and map equality never change the map:
\* size(), the live set, the stored values and the size of the underlying
\* sequence are the same afterwards, and looking up a price never touched
\* does not backfill the sequence  (SpecPair)
C35_LookupsReadOnly == [][LookupStep]_vars

\* at() did not find the price of the second level, which was never
\* touched: data_ holds the one entry of the first level
C35_Witness ==
    /\ ret.op = "map_at" /\ ret.threw = "out_of_range" /\ ret.what = KeyNotFound
    /\ size_count_ = 1
    /\ sv_size(data_, DataChunkSize) = 1

\* insert(k, v) and operator[](k) called on the members m: what a caller
\* then sees of a price that is not live
FreshAfter(m, k) ==
    /\ \A v \in MapValues :
          LET o == pm_insert(cfg, m.data, m.occ, m.cnt, m.heap, k, v)
          IN  /\ o.threw = "none" /\ o.flag
              /\ AtAfter(o, k).threw = "none"
              /\ AtAfter(o, k).val = v
    /\ LET o == pm_subscript(cfg, m.data, m.occ, m.cnt, m.heap, k)
       IN  /\ o.threw = "none" /\ o.val = DefaultT
           /\ AtAfter(o, k).val = DefaultT
    /\ pm_at(cfg, m.data, m.occ, m.cnt, m.heap, k).threw = "out_of_range"

\* C36: the value of an erased entry is not observable again: after erase(K)
\* or clear(), called in any reachable state, insert(K, v2) returns true and
\* at(K) yields v2, operator[](K) yields a default-constructed value, and
\* at(K) itself throws  (SpecMap)
C36_ErasedValueGone ==
    /\ \A k \in Prices :
          ValidPrice(cfg, k) => FreshAfter(EraseNow(k), k)
    /\ LET c == ClearNow
       IN  \A k \in Prices : ValidPrice(cfg, k) => FreshAfter(c, k)

\* an entry whose value was not the default one was erased: its slot is not
\* live and still holds that value
C36_Witness ==
    /\ ret.op = "erase" /\ ret.flag
    /\ \E n \in Levels(cfg) :
          /\ ~occupied_[n + 1]
          /\ slot_constructed(data_, DataChunkSize, n)
          /\ index_val(data_, DataChunkSize, n).second # DefaultT

\* one step of the two sequences when it is w = std::move(v): v holds
\* Len(appended) elements before it, w holds Len(w.elems)
MoveAssignStep ==
    ret'.op = "move_assign" =>
        /\ ret'.val = Len(w.elems)
        /\ ret'.val = sv_size(w.chunks, ChunkSize)
        /\ ret'.arg = 0
        /\ sv_size(w'.chunks, ChunkSize) = Len(appended)
        /\ sv_size(w'.chunks, ChunkSize) = size
        /\ sv_empty(m_chunks')
        /\ sv_size(m_chunks', ChunkSize) = 0

\* C37: move-assigning a sequence of m elements onto one of n elements
\* destroys exactly the n old elements of the destination and constructs,
\* copies or moves none; afterwards the destination has size m and the
\* source is empty  (SpecSeq)
C37_MoveAssignCounts == [][MoveAssignStep]_vars

\* a sequence of one element was move-assigned onto one of three elements in
\* two chunks
C37_Witness ==
    /\ ret.op = "move_assign"
    /\ ret.val = MaxCopied /\ ret.arg = 0
    /\ Len(w.elems) = 1
    /\ sv_size(w.chunks, ChunkSize) = 1

\* the keys a loop from begin() to end() reads, in the order it reads them
VisitedKeys ==
    LET visited == pm_visit(data_, occupied_, pm_begin(data_, occupied_))
    IN  [j \in 1..Len(visited) |-> index_val(data_, DataChunkSize, visited[j]).first]

\* C38: in the dense map, iteration yields the live entries in strictly
\* ascending price order, in whatever order the prices were inserted, erased
\* and inserted again  (SpecMap)
C38_IterationAscending ==
    LET keys == VisitedKeys
    IN  /\ Len(keys) = size_count_
        /\ \A j \in 1..(Len(keys) - 1) : keys[j] < keys[j + 1]

\* a loop visited the entries of the first and the last level, the first
\* stored under a price next to its grid point, and skipped the dead slot
\* between them
C38_Witness ==
    /\ ret.op = "iterate" /\ ret.val = 2
    /\ occupied_[1] /\ ~occupied_[2] /\ occupied_[3]
    /\ VisitedKeys = <<17, 24>>

=============================================================================
